---- MODULE Spec2Model ----
(***************************************************************************)
(* A model of the multi-transaction-log manager                            *)
(* (src/src/backend/access/transam/multixact.c): the shared allocator      *)
(* state, the two paged logs (offsets and members), the write-ahead        *)
(* records and their replay, truncation, and the backend-local cache.      *)
(*                                                                         *)
(* Page geometry is scaled down (a page holds a few entries, a segment a   *)
(* few pages) so that page and segment boundaries are crossed within the   *)
(* explored runs; the arithmetic is the source's.                          *)
(***************************************************************************)
EXTENDS Integers, Sequences, FiniteSets, TLC

VARIABLES
    MultiXactState,        \* shared struct: nextMXact, nextOffset, oldestMultiXactId, ...
    OffsetCtl,             \* offsets SLRU: pages that exist, latest_page_number
    MemberCtl,             \* members SLRU: pages that exist, latest_page_number
    wal,                   \* the durable record stream, in insertion order
    MXactCache,            \* per backend: the cache list, head first
    MXactCacheMembers,     \* per backend: the cache's entry counter
    OldestMemberMXactId,   \* per backend slot
    OldestVisibleMXactId,  \* per backend slot
    xact,                  \* the external liveness oracle: xid -> state
    build,                 \* byte order of the build and the bytes found past a short record
    held,                  \* per backend: the LWLocks it holds, each with its mode
    notRunning,            \* history: the ids MultiXactIdIsRunning has answered false for
    pc,                    \* per backend: position inside a running call
    loc,                   \* per backend: the locals of the running call
    created,               \* history: id -> the member array its creator passed in
    reserved,              \* history: the ids handed out, in MultiXactGenLock order
    returned,              \* history: per backend, the <<member set, id>> pairs Create
                           \* returned in this unit of work
    evicted,               \* history: per backend, the cache dropped an entry in this unit of work
    ret                    \* history: the last call that completed

vars == <<MultiXactState, OffsetCtl, MemberCtl, wal, MXactCache, MXactCacheMembers,
          OldestMemberMXactId, OldestVisibleMXactId, xact, build, held, notRunning, pc,
          loc, created, reserved, returned, evicted, ret>>

sharedVars == <<MultiXactState, OffsetCtl, MemberCtl, wal>>
cacheVars == <<MXactCache, MXactCacheMembers>>
slotVars == <<OldestMemberMXactId, OldestVisibleMXactId>>

-----------------------------------------------------------------------------
(* Bounds of the model *)

\* the explored runs mint about MaxMXact ids; each specification states its cap
MaxMXact == 2
\* scaled MULTIXACT_OFFSETS_PER_PAGE
MULTIXACT_OFFSETS_PER_PAGE == 2
\* scaled MULTIXACT_MEMBERS_PER_MEMBERGROUP
MULTIXACT_MEMBERS_PER_MEMBERGROUP == 2
\* scaled MULTIXACT_MEMBERGROUPS_PER_PAGE
MULTIXACT_MEMBERGROUPS_PER_PAGE == 1
\* scaled SLRU_PAGES_PER_SEGMENT
SLRU_PAGES_PER_SEGMENT == 1
\* scaled MAX_CACHE_ENTRIES
MAX_CACHE_ENTRIES == 2
\* scaled autovacuum_multixact_freeze_max_age
autovacuum_multixact_freeze_max_age == 1
\* scaled 65536 of GetNewMultiXactId: the ids from one request for the
\* autovacuum launcher to the next
MULTIS_PER_AUTOVAC_REQUEST == 2

-----------------------------------------------------------------------------
(* Program constants *)

InvalidMultiXactId == 0
FirstMultiXactId == 1
InvalidTransactionId == 0

MultiXactStatusForKeyShare == 0
MultiXactStatusForShare == 1
MultiXactStatusForNoKeyUpdate == 2
MultiXactStatusForUpdate == 3
MultiXactStatusNoKeyUpdate == 4
MultiXactStatusUpdate == 5

ISUPDATE_from_mxstatus(status) == status > MultiXactStatusForUpdate

MultiXactIdIsValid(multi) == multi # InvalidMultiXactId
TransactionIdIsValid(xid) == xid # InvalidTransactionId

MultiXactIdPrecedes(multi1, multi2) == multi1 < multi2
MultiXactIdPrecedesOrEquals(multi1, multi2) == multi1 <= multi2

\* far beyond every id and offset of the explored runs
MaxMultiXactId == 1000000
MaxMultiXactOffset == 1000000

PreviousMultiXactId(xid) == IF xid = FirstMultiXactId THEN MaxMultiXactId ELSE xid - 1

-----------------------------------------------------------------------------
(* The inputs the callers draw from *)

Backends == {1, 2}
Xids == {1, 2}
Databases == {1}

Member(x, s) == [xid |-> x, status |-> s]

\* the arrays a caller passes: a two-member set in both orders, singletons,
\* and two updating members
LockerAndUpdater == <<Member(1, MultiXactStatusForShare), Member(2, MultiXactStatusUpdate)>>
UpdaterAndLocker == <<Member(2, MultiXactStatusUpdate), Member(1, MultiXactStatusForShare)>>
OneUpdater == <<Member(1, MultiXactStatusNoKeyUpdate)>>
OneLocker == <<Member(1, MultiXactStatusForShare)>>
TwoUpdaters == <<Member(2, MultiXactStatusUpdate), Member(1, MultiXactStatusNoKeyUpdate)>>

MemberPool ==
    {Member(1, MultiXactStatusForShare), Member(2, MultiXactStatusUpdate),
     Member(1, MultiXactStatusNoKeyUpdate)}

Range(f) == {f[x] : x \in DOMAIN f}

SetMin(S) == CHOOSE x \in S : \A y \in S : x <= y
SetMax(S) == CHOOSE x \in S : \A y \in S : x >= y

-----------------------------------------------------------------------------
(* Paging arithmetic *)

MultiXactIdToOffsetPage(xid) == xid \div MULTIXACT_OFFSETS_PER_PAGE

\* an entry number that is 0 for every id
AlwaysFirstEntry(xid) == 0

MultiXactIdToOffsetEntry(xid) == xid % MULTIXACT_OFFSETS_PER_PAGE

MULTIXACT_MEMBERS_PER_PAGE ==
    MULTIXACT_MEMBERGROUPS_PER_PAGE * MULTIXACT_MEMBERS_PER_MEMBERGROUP

MXOffsetToMemberPage(xid) == xid \div MULTIXACT_MEMBERS_PER_PAGE
MXOffsetToMemberSegment(xid) == MXOffsetToMemberPage(xid) \div SLRU_PAGES_PER_SEGMENT

\* the group of the page that holds the member's flag byte
MXOffsetToFlagsOffset(xid) ==
    (xid \div MULTIXACT_MEMBERS_PER_MEMBERGROUP) % MULTIXACT_MEMBERGROUPS_PER_PAGE
\* the member's place inside its group
MXOffsetToFlagsBitShift(xid) == xid % MULTIXACT_MEMBERS_PER_MEMBERGROUP
\* the member's slot in its page
MXOffsetToMemberOffset(xid) ==
    MXOffsetToFlagsOffset(xid) * MULTIXACT_MEMBERS_PER_MEMBERGROUP
        + (xid % MULTIXACT_MEMBERS_PER_MEMBERGROUP)


-----------------------------------------------------------------------------
(* mxactMemberComparator and the sort of a member array *)

mxactMemberComparator(member1, member2) ==
    IF member1.xid > member2.xid THEN 1
    ELSE IF member1.xid < member2.xid THEN -1
    ELSE IF member1.status > member2.status THEN 1
    ELSE IF member1.status < member2.status THEN -1
    ELSE 0

RECURSIVE InsertSorted(_, _)
InsertSorted(m, arr) ==
    IF arr = <<>> THEN <<m>>
    ELSE IF mxactMemberComparator(m, Head(arr)) <= 0 THEN <<m>> \o arr
    ELSE <<Head(arr)>> \o InsertSorted(m, Tail(arr))

RECURSIVE SortMembers(_)
SortMembers(arr) ==
    IF arr = <<>> THEN <<>> ELSE InsertSorted(Head(arr), SortMembers(Tail(arr)))

IsSorted(arr) ==
    \A i \in 1..(Len(arr) - 1) : mxactMemberComparator(arr[i], arr[i + 1]) <= 0

-----------------------------------------------------------------------------
(* The backend-local cache: a list of entries, head first *)

CacheEnt(multi, members) ==
    [multi |-> multi, nmembers |-> Len(members), members |-> members]

\* a hit that leaves the entry where it is
MoveNothing(cache, i) == cache

\* dlist_move_head
MoveHead(cache, i) ==
    <<cache[i]>> \o SubSeq(cache, 1, i - 1) \o SubSeq(cache, i + 1, Len(cache))

\* the first entry, from the head, that holds this sorted member array (0: none)
CacheFindBySet(cache, sorted) ==
    LET hits == {i \in 1..Len(cache) :
                    cache[i].nmembers = Len(sorted) /\ cache[i].members = sorted}
    IN IF hits = {} THEN 0 ELSE SetMin(hits)

\* the first entry, from the head, with this id (0: none)
CacheFindById(cache, multi) ==
    LET hits == {i \in 1..Len(cache) : cache[i].multi = multi}
    IN IF hits = {} THEN 0 ELSE SetMin(hits)

\* a lookup that compares the array as passed
mXactCacheGetBySetUnsorted(cache, members) ==
    LET i == CacheFindBySet(cache, members)
    IN IF i = 0
       THEN [multi |-> InvalidMultiXactId, members |-> members, cache |-> cache]
       ELSE [multi |-> cache[i].multi, members |-> members, cache |-> MoveHead(cache, i)]

\* sorts the passed array in place, returns the id found and the reordered list
mXactCacheGetBySet(cache, members) ==
    LET sorted == SortMembers(members)
        i == CacheFindBySet(cache, sorted)
    IN IF i = 0
       THEN [multi |-> InvalidMultiXactId, members |-> sorted, cache |-> cache]
       ELSE [multi |-> cache[i].multi, members |-> sorted, cache |-> MoveHead(cache, i)]

\* length -1: not in the cache
mXactCacheGetById(cache, multi) ==
    LET i == CacheFindById(cache, multi)
    IN IF i = 0
       THEN [length |-> -1, members |-> <<>>, cache |-> cache]
       ELSE [length |-> cache[i].nmembers, members |-> cache[i].members,
             cache |-> MoveHead(cache, i)]

\* a put that never prunes
mXactCachePutUnbounded(cache, count, multi, members) ==
    [cache |-> <<CacheEnt(multi, SortMembers(members))>> \o cache, count |-> count + 1]

\* pushes a sorted copy at the head; prunes the tail when the counter had reached the bound
mXactCachePut(cache, count, multi, members) ==
    LET pushed == <<CacheEnt(multi, SortMembers(members))>> \o cache
    IN IF count >= MAX_CACHE_ENTRIES
       THEN [cache |-> SubSeq(pushed, 1, Len(pushed) - 1), count |-> count]
       ELSE [cache |-> pushed, count |-> count + 1]

-----------------------------------------------------------------------------
(* The paged logs.  A ctl is [pages, latest_page_number]; pages maps the    *)
(* numbers of the pages that exist to their contents.                       *)

ZeroOffsetPage == [e \in 0..(MULTIXACT_OFFSETS_PER_PAGE - 1) |-> 0]
ZeroMember == [xid |-> InvalidTransactionId, status |-> 0]
ZeroMemberPage == [e \in 0..(MULTIXACT_MEMBERS_PER_PAGE - 1) |-> ZeroMember]

PageExists(ctl, pageno) == pageno \in DOMAIN ctl.pages

\* SimpleLruZeroPage: the page exists, all zeroes, and is the latest page
SimpleLruZeroPage(ctl, pageno, zero) ==
    [pages |-> [p \in (DOMAIN ctl.pages) \cup {pageno} |->
                    IF p = pageno THEN zero ELSE ctl.pages[p]],
     latest_page_number |-> pageno]

\* SimpleLruReadPage during replay: a page whose file is missing reads as zeroes
SimpleLruReadPageInRecovery(ctl, pageno, zero) ==
    IF PageExists(ctl, pageno) THEN ctl
    ELSE [ctl EXCEPT !.pages = [p \in (DOMAIN ctl.pages) \cup {pageno} |->
                                    IF p = pageno THEN zero ELSE ctl.pages[p]]]

SegmentOfPage(pageno) == pageno \div SLRU_PAGES_PER_SEGMENT

\* SlruDeleteSegment: every page of the segment is gone
SlruDeleteSegment(ctl, segno) ==
    [ctl EXCEPT !.pages = [p \in {q \in DOMAIN ctl.pages : SegmentOfPage(q) # segno} |->
                               ctl.pages[p]]]

\* the offset entry of an id whose page exists
OffsetEntry(ctl, multi) ==
    ctl.pages[MultiXactIdToOffsetPage(multi)][MultiXactIdToOffsetEntry(multi)]

\* the member slot of an offset whose page exists
MemberEntry(ctl, offset) ==
    ctl.pages[MXOffsetToMemberPage(offset)][MXOffsetToMemberOffset(offset)]

-----------------------------------------------------------------------------
(* Operations on the shared state S = [mx, off, mem, wal]: the shared       *)
(* struct, the two SLRU areas and the record stream.                        *)

Shared == [mx |-> MultiXactState, off |-> OffsetCtl, mem |-> MemberCtl, wal |-> wal]

\* An int64 page number in memory is two 32-bit words; the numbers of the
\* explored runs fit the low word.
PageAsInt64(pageno) == [hi |-> 0, lo |-> pageno]

\* the first sizeof(int) bytes of an int64 in memory
FirstWordInMemory(v) == IF build.bigEndian THEN v.hi ELSE v.lo

\* sizeof(int64) bytes read from a buffer that holds sizeof(int) bytes of data
\* followed by whatever the buffer held before
Int64FromMemory(data) ==
    IF build.bigEndian THEN [hi |-> data, lo |-> build.junk]
    ELSE [hi |-> build.junk, lo |-> data]

\* the conversion of an int64 argument to an int parameter
Int64ToInt(v) == v.lo

\* WriteMZeroPageXlogRec: registers sizeof(int) bytes of its int64 pageno
WriteMZeroPageXlogRec(S, pageno, info) ==
    [S EXCEPT !.wal = Append(@, [info |-> info,
                                  data |-> FirstWordInMemory(PageAsInt64(pageno))])]

\* a zeroing that skips the record
ZeroOffsetPageUnlogged(S, pageno, writeXlog) ==
    [S EXCEPT !.off = SimpleLruZeroPage(@, pageno, ZeroOffsetPage)]

ZeroMultiXactOffsetPage(S, pageno, writeXlog) ==
    LET S1 == [S EXCEPT !.off = SimpleLruZeroPage(@, pageno, ZeroOffsetPage)]
    IN IF writeXlog THEN WriteMZeroPageXlogRec(S1, pageno, "ZERO_OFF_PAGE") ELSE S1

ZeroMultiXactMemberPage(S, pageno, writeXlog) ==
    LET S1 == [S EXCEPT !.mem = SimpleLruZeroPage(@, pageno, ZeroMemberPage)]
    IN IF writeXlog THEN WriteMZeroPageXlogRec(S1, pageno, "ZERO_MEM_PAGE") ELSE S1

\* No work except at the first id of a page, and at FirstMultiXactId
ExtendMultiXactOffset(S, multi) ==
    IF MultiXactIdToOffsetEntry(multi) # 0 /\ multi # FirstMultiXactId THEN S
    ELSE ZeroMultiXactOffsetPage(S, MultiXactIdToOffsetPage(multi), TRUE)

RECURSIVE ExtendMultiXactMember(_, _, _)
ExtendMultiXactMember(S, offset, nmembers) ==
    IF nmembers <= 0 THEN S
    ELSE LET S1 == IF MXOffsetToFlagsOffset(offset) = 0 /\ MXOffsetToFlagsBitShift(offset) = 0
                   THEN ZeroMultiXactMemberPage(S, MXOffsetToMemberPage(offset), TRUE)
                   ELSE S
             difference == MULTIXACT_MEMBERS_PER_PAGE - (offset % MULTIXACT_MEMBERS_PER_PAGE)
         IN ExtendMultiXactMember(S1, offset + difference, nmembers - difference)

\* the wraparound fix and the id the caller will get if nothing intervenes
FixNextMXact(S) ==
    IF S.mx.nextMXact < FirstMultiXactId
    THEN [S EXCEPT !.mx.nextMXact = FirstMultiXactId] ELSE S

\* a reservation that hands out the id and leaves nextOffset where it was
ReserveKeepingOffset(S, nmembers) ==
    LET result == S.mx.nextMXact
        S1 == ExtendMultiXactOffset(S, result)
        S2 == ExtendMultiXactMember(S1, S1.mx.nextOffset, nmembers)
    IN [result |-> result, offset |-> S1.mx.nextOffset,
        S |-> [S2 EXCEPT !.mx.nextMXact = @ + 1]]

\* a reservation that hands out no id at or past multiVacLimit
ReserveRefusingAtLimit(S, nmembers) ==
    LET result == S.mx.nextMXact
        S1 == ExtendMultiXactOffset(S, result)
        offset == S1.mx.nextOffset
        S2 == ExtendMultiXactMember(S1, offset, nmembers)
    IN IF MultiXactIdPrecedes(result, S.mx.multiVacLimit)
       THEN [result |-> result, offset |-> offset,
             S |-> [S2 EXCEPT !.mx.nextMXact = @ + 1, !.mx.nextOffset = @ + nmembers]]
       ELSE [result |-> InvalidMultiXactId, offset |-> 0, S |-> S]

\* from "Make sure there is room" to the advance of the counters, all under
\* MultiXactGenLock: the id and the start offset assigned, and the new state
ReserveMultiXactId(S, nmembers) ==
    LET result == S.mx.nextMXact
        S1 == ExtendMultiXactOffset(S, result)
        offset == S1.mx.nextOffset
        S2 == ExtendMultiXactMember(S1, offset, nmembers)
    IN [result |-> result, offset |-> offset,
        S |-> [S2 EXCEPT !.mx.nextMXact = @ + 1, !.mx.nextOffset = @ + nmembers]]

\* GetNewMultiXactId, run without interruption
GetNewMultiXactId(S, nmembers) == ReserveMultiXactId(FixNextMXact(S), nmembers)

\* the create record
XLogInsertCreate(S, multi, offset, members) ==
    [S EXCEPT !.wal = Append(@, [info |-> "CREATE_ID", mid |-> multi, moff |-> offset,
                                  nmembers |-> Len(members), members |-> members])]

\* SimpleLruReadPage: during replay a missing page reads as zeroes
ReadPage(ctl, pageno, zero, InRecovery) ==
    IF InRecovery THEN SimpleLruReadPageInRecovery(ctl, pageno, zero) ELSE ctl

\* a creator that leaves the offset entry of its id as it found it
RecordOffsetNowhere(S, multi, offset, InRecovery) == S

\* the first half of RecordNewMultiXact: the offset entry
RecordOffset(S, multi, offset, InRecovery) ==
    LET pageno == MultiXactIdToOffsetPage(multi)
        entryno == MultiXactIdToOffsetEntry(multi)
        ctl == ReadPage(S.off, pageno, ZeroOffsetPage, InRecovery)
    IN [S EXCEPT !.off = [ctl EXCEPT !.pages[pageno][entryno] = offset]]

\* the second half: the members, one slot after the other
RECURSIVE WriteMembers(_, _, _, _)
WriteMembers(ctl, offset, members, InRecovery) ==
    IF members = <<>> THEN ctl
    ELSE LET pageno == MXOffsetToMemberPage(offset)
             memberoff == MXOffsetToMemberOffset(offset)
             c1 == ReadPage(ctl, pageno, ZeroMemberPage, InRecovery)
             c2 == [c1 EXCEPT !.pages[pageno][memberoff] = Head(members)]
         IN WriteMembers(c2, offset + 1, Tail(members), InRecovery)

\* a writer that starts one slot early
RecordMembersFromPrevious(S, offset, members, InRecovery) ==
    [S EXCEPT !.mem = WriteMembers(@, offset - 1, members, InRecovery)]

RecordMembers(S, offset, members, InRecovery) ==
    [S EXCEPT !.mem = WriteMembers(@, offset, members, InRecovery)]

RecordNewMultiXact(S, multi, offset, members, InRecovery) ==
    RecordMembers(RecordOffset(S, multi, offset, InRecovery), offset, members, InRecovery)

\* the pages RecordNewMultiXact reads exist
RecordPagesExist(S, multi, offset, nmembers) ==
    /\ PageExists(S.off, MultiXactIdToOffsetPage(multi))
    /\ \A o \in offset..(offset + nmembers - 1) : PageExists(S.mem, MXOffsetToMemberPage(o))

SetMultiXactIdLimit(S, oldest_datminmxid, oldest_datoid) ==
    [S EXCEPT !.mx.oldestMultiXactId = oldest_datminmxid,
              !.mx.oldestMultiXactDB = oldest_datoid,
              !.mx.multiVacLimit = oldest_datminmxid + autovacuum_multixact_freeze_max_age]

\* counters set to what the record has, whatever they were
SetNextFromRecord(S, minMulti, minMultiOffset) ==
    [S EXCEPT !.mx.nextMXact = minMulti, !.mx.nextOffset = minMultiOffset]

MultiXactAdvanceNextMXact(S, minMulti, minMultiOffset) ==
    [S EXCEPT !.mx.nextMXact = IF MultiXactIdPrecedes(@, minMulti) THEN minMulti ELSE @,
              !.mx.nextOffset = IF @ < minMultiOffset THEN minMultiOffset ELSE @]

\* a replay that sets the limit whatever it was
AdvanceOldestAlways(S, oldestMulti, oldestMultiDB) ==
    SetMultiXactIdLimit(S, oldestMulti, oldestMultiDB)

\* MultiXactAdvanceOldest: only forward
MultiXactAdvanceOldest(S, oldestMulti, oldestMultiDB) ==
    IF MultiXactIdPrecedes(S.mx.oldestMultiXactId, oldestMulti)
    THEN SetMultiXactIdLimit(S, oldestMulti, oldestMultiDB)
    ELSE S

-----------------------------------------------------------------------------
(* Resolution of an id from the logs *)

\* a slot value that ignores the OldestMemberMXactId[] entries
OldestVisibleIsNext(mx, oldestMember) == mx.nextMXact

\* the value MultiXactIdSetOldestVisible stores: the oldest of nextMXact and
\* the valid OldestMemberMXactId[] entries
OldestVisibleValue(mx, oldestMember) ==
    LET start == IF mx.nextMXact < FirstMultiXactId THEN FirstMultiXactId ELSE mx.nextMXact
        valid == {oldestMember[i] : i \in DOMAIN oldestMember} \ {InvalidMultiXactId}
    IN SetMin({start} \cup valid)

\* a reader that takes every id for the latest one
ReadOffsetsAsLatest(off, multi, nextMXact, nextOffset) ==
    IF ~PageExists(off, MultiXactIdToOffsetPage(multi))
    THEN [kind |-> "error", offset |-> 0, length |-> 0]
    ELSE [kind |-> "ok", offset |-> OffsetEntry(off, multi),
          length |-> nextOffset - OffsetEntry(off, multi)]

\* a reader that takes the entry of the next id as it finds it, 0 or not
ReadOffsetsThroughZero(off, multi, nextMXact, nextOffset) ==
    IF ~PageExists(off, MultiXactIdToOffsetPage(multi))
    THEN [kind |-> "error", offset |-> 0, length |-> 0]
    ELSE IF nextMXact = multi + 1
    THEN [kind |-> "ok", offset |-> OffsetEntry(off, multi),
          length |-> nextOffset - OffsetEntry(off, multi)]
    ELSE IF ~PageExists(off, MultiXactIdToOffsetPage(multi + 1))
    THEN [kind |-> "error", offset |-> 0, length |-> 0]
    ELSE [kind |-> "ok", offset |-> OffsetEntry(off, multi),
          length |-> OffsetEntry(off, multi + 1) - OffsetEntry(off, multi)]

\* the retry block: this id's offset entry and the member count, from the
\* counters read before under MultiXactGenLock
ReadOffsets(off, multi, nextMXact, nextOffset) ==
    IF ~PageExists(off, MultiXactIdToOffsetPage(multi))
    THEN [kind |-> "error", offset |-> 0, length |-> 0]
    ELSE LET offset == OffsetEntry(off, multi)
             tmpMXact == multi + 1
         IN IF nextMXact = tmpMXact
            THEN [kind |-> "ok", offset |-> offset, length |-> nextOffset - offset]
            ELSE IF ~PageExists(off, MultiXactIdToOffsetPage(tmpMXact))
            THEN [kind |-> "error", offset |-> 0, length |-> 0]
            ELSE LET nextMXOffset == OffsetEntry(off, tmpMXact)
                 IN IF nextMXOffset = 0
                    THEN [kind |-> "retry", offset |-> offset, length |-> 0]
                    ELSE [kind |-> "ok", offset |-> offset,
                          length |-> nextMXOffset - offset]

\* the member loop: a slot whose xid is invalid is skipped
RECURSIVE ReadMembers(_, _, _)
ReadMembers(mem, offset, length) ==
    IF length <= 0 THEN [kind |-> "ok", members |-> <<>>]
    ELSE IF ~PageExists(mem, MXOffsetToMemberPage(offset))
    THEN [kind |-> "error", members |-> <<>>]
    ELSE LET m == MemberEntry(mem, offset)
             rest == ReadMembers(mem, offset + 1, length - 1)
         IN IF rest.kind = "error" THEN rest
            ELSE IF ~TransactionIdIsValid(m.xid) THEN rest
            ELSE [kind |-> "ok", members |-> <<m>> \o rest.members]

\* what the logs give for an id under the current counters:
\* kind "ok" with the members, "retry" (the next id's entry reads 0), or
\* "error" (a page is missing, or the member count is negative)
ReadFromLogs(S, multi, nextMXact, nextOffset) ==
    LET o == ReadOffsets(S.off, multi, nextMXact, nextOffset)
    IN IF o.kind # "ok" THEN [kind |-> o.kind, members |-> <<>>]
       ELSE IF o.length < 0 THEN [kind |-> "error", members |-> <<>>]
       ELSE ReadMembers(S.mem, o.offset, o.length)

\* GetMultiXactIdMembers, run without interruption by backend w.
\* kind: "none" (-1), "cached", "ok", "retry", "error"
GetMultiXactIdMembers(S, cache, count, visible, oldestMember, multi, onlyLock) ==
    LET unchanged == [members |-> <<>>, cache |-> cache, count |-> count, visible |-> visible]
    IN IF ~MultiXactIdIsValid(multi) THEN [kind |-> "none"] @@ unchanged
       ELSE LET c == mXactCacheGetById(cache, multi)
            IN IF c.length >= 0
               THEN [kind |-> "cached", members |-> c.members, cache |-> c.cache,
                     count |-> count, visible |-> visible]
               ELSE LET vis == IF MultiXactIdIsValid(visible) THEN visible
                               ELSE OldestVisibleValue(S.mx, oldestMember)
                        seen == [unchanged EXCEPT !.visible = vis]
                    IN IF onlyLock /\ MultiXactIdPrecedes(multi, vis)
                       THEN [kind |-> "none"] @@ seen
                       ELSE LET r == ReadFromLogs(S, multi, S.mx.nextMXact, S.mx.nextOffset)
                            IN IF r.kind # "ok" THEN [kind |-> r.kind] @@ seen
                               ELSE LET put == mXactCachePut(cache, count, multi, r.members)
                                    IN [kind |-> "ok", members |-> r.members,
                                        cache |-> put.cache, count |-> put.count,
                                        visible |-> vis]

-----------------------------------------------------------------------------
(* LWLocks *)

\* the names of the locks held by backend w
HeldBy(w) == {l.lock : l \in held[w]}

\* an LWLockAcquire that does not look at the other holders
LWLockAlwaysFree(w, lock, mode) == TRUE

\* LWLockAcquire returns when no other backend holds the lock in a
\* conflicting mode
LWLockFree(w, lock, mode) ==
    \A v \in Backends \ {w} : \A l \in held[v] :
        l.lock = lock => (mode = "LW_SHARED" /\ l.mode = "LW_SHARED")

LWLockAcquire(h, w, lock, mode) == [h EXCEPT ![w] = @ \cup {[lock |-> lock, mode |-> mode]}]

\* an LWLockRelease that leaves the lock with its holder
LWLockKept(h, w, lock) == h

LWLockRelease(h, w, lock) == [h EXCEPT ![w] = {l \in @ : l.lock # lock}]

-----------------------------------------------------------------------------
(* Truncation *)

\* a member loop that deletes the last segment too
MemberSegmentDeletedThroughEnd(segno, oldestOffset, newOldestOffset) ==
    /\ MXOffsetToMemberSegment(oldestOffset) <= segno
    /\ segno <= MXOffsetToMemberSegment(newOldestOffset)

\* the pages of the segments the member loop deletes: from the segment of
\* oldestOffset up to, not including, that of newOldestOffset, going round
\* at the last segment
MemberSegmentDeleted(segno, oldestOffset, newOldestOffset) ==
    LET startsegment == MXOffsetToMemberSegment(oldestOffset)
        endsegment == MXOffsetToMemberSegment(newOldestOffset)
        maxsegment == MXOffsetToMemberSegment(MaxMultiXactOffset)
    IN IF startsegment <= endsegment
       THEN startsegment <= segno /\ segno < endsegment
       ELSE (startsegment <= segno /\ segno <= maxsegment) \/ segno < endsegment

PerformMembersTruncation(S, oldestOffset, newOldestOffset) ==
    [S EXCEPT !.mem.pages =
        [p \in {q \in DOMAIN S.mem.pages :
                    ~MemberSegmentDeleted(SegmentOfPage(q), oldestOffset, newOldestOffset)}
            |-> S.mem.pages[p]]]

\* SimpleLruTruncate: removes the segments before the one that holds
\* cutoffPage, unless the cutoff is past the latest page
SimpleLruTruncate(ctl, cutoffPage) ==
    LET cutoff == cutoffPage - (cutoffPage % SLRU_PAGES_PER_SEGMENT)
    IN IF ctl.latest_page_number < cutoff THEN ctl
       ELSE [ctl EXCEPT !.pages =
                [p \in {q \in DOMAIN ctl.pages :
                            ~(SegmentOfPage(q) * SLRU_PAGES_PER_SEGMENT < cutoff)}
                    |-> ctl.pages[p]]]

PerformOffsetsTruncation(S, oldestMulti, newOldestMulti) ==
    [S EXCEPT !.off =
        SimpleLruTruncate(@, MultiXactIdToOffsetPage(PreviousMultiXactId(newOldestMulti)))]

\* a lookup that reports offset 0 for an id whose page is not on disk
find_multixact_start_anyway(S, multi) ==
    IF ~PageExists(S.off, MultiXactIdToOffsetPage(multi))
    THEN [found |-> TRUE, result |-> 0]
    ELSE [found |-> TRUE, result |-> OffsetEntry(S.off, multi)]

\* find_multixact_start: found is FALSE when the page is not on disk
find_multixact_start(S, multi) ==
    IF ~PageExists(S.off, MultiXactIdToOffsetPage(multi))
    THEN [found |-> FALSE, result |-> 0]
    ELSE [found |-> TRUE, result |-> OffsetEntry(S.off, multi)]

\* the first id of the earliest offsets segment on disk (-1: no segment)
EarliestExistingPage(ctl) ==
    IF DOMAIN ctl.pages = {} THEN -1
    ELSE SetMin({SegmentOfPage(p) * SLRU_PAGES_PER_SEGMENT : p \in DOMAIN ctl.pages})

\* a truncation that leaves no record
TruncateUnlogged(S, oldestMultiDB, startTruncOff, endTruncOff, startTruncMemb, endTruncMemb) == S

WriteMTruncateXlogRec(S, oldestMultiDB, startTruncOff, endTruncOff, startTruncMemb, endTruncMemb) ==
    [S EXCEPT !.wal = Append(@, [info |-> "TRUNCATE_ID", oldestMultiDB |-> oldestMultiDB,
                                  startTruncOff |-> startTruncOff,
                                  endTruncOff |-> endTruncOff,
                                  startTruncMemb |-> startTruncMemb,
                                  endTruncMemb |-> endTruncMemb])]

\* TruncateMultiXact up to its critical section: the exit it takes (kind)
\* and, when it goes on, the range it will remove
TruncationRange(S, newOldestMulti) ==
    LET nextMulti == S.mx.nextMXact
        nextOffset == S.mx.nextOffset
        oldestMulti == S.mx.oldestMultiXactId
        page == EarliestExistingPage(S.off)
        scaled == page * MULTIXACT_OFFSETS_PER_PAGE
        earliest == IF page < 0 THEN MaxMultiXactId
                    ELSE IF scaled < FirstMultiXactId THEN FirstMultiXactId ELSE scaled
        old == IF oldestMulti = nextMulti THEN [found |-> TRUE, result |-> nextOffset]
               ELSE find_multixact_start(S, oldestMulti)
        new == IF newOldestMulti = nextMulti THEN [found |-> TRUE, result |-> nextOffset]
               ELSE find_multixact_start(S, newOldestMulti)
        exit == IF MultiXactIdPrecedesOrEquals(newOldestMulti, oldestMulti)
                THEN "nothing_to_truncate"
                ELSE IF MultiXactIdPrecedes(oldestMulti, earliest) THEN "already_removed"
                ELSE IF ~old.found THEN "oldest_not_found"
                ELSE IF ~new.found THEN "new_not_found"
                ELSE "truncated"
    IN [kind |-> exit, oldestMulti |-> oldestMulti, earliest |-> earliest,
        oldestOffset |-> old.result, newOldestOffset |-> new.result]

\* the update of the limits inside the critical section
TruncationLimits(S, newOldestMulti, newOldestMultiDB) ==
    [S EXCEPT !.mx.oldestMultiXactId = newOldestMulti,
              !.mx.oldestMultiXactDB = newOldestMultiDB]

\* TruncateMultiXact, run without interruption.  kind names the exit taken.
TruncateMultiXact(S, newOldestMulti, newOldestMultiDB) ==
    LET t == TruncationRange(S, newOldestMulti)
    IN IF t.kind # "truncated" THEN [kind |-> t.kind, S |-> S]
       ELSE LET S1 == WriteMTruncateXlogRec(S, newOldestMultiDB, t.oldestMulti,
                                            newOldestMulti, t.oldestOffset, t.newOldestOffset)
                S2 == TruncationLimits(S1, newOldestMulti, newOldestMultiDB)
                S3 == PerformMembersTruncation(S2, t.oldestOffset, t.newOldestOffset)
                S4 == PerformOffsetsTruncation(S3, t.oldestMulti, newOldestMulti)
            IN [kind |-> "truncated", S |-> S4]

-----------------------------------------------------------------------------
(* Replay of the durable records *)

\* the first member offset a new cluster hands out
FirstMultiXactOffset == 1

\* a first checkpoint whose next member offset is 0
BootAtOffsetZero ==
    [mx |-> [nextMXact |-> FirstMultiXactId, nextOffset |-> 0,
             oldestMultiXactId |-> FirstMultiXactId,
             oldestMultiXactDB |-> SetMin(Databases),
             multiVacLimit |-> FirstMultiXactId + autovacuum_multixact_freeze_max_age],
     off |-> [pages |-> (0 :> ZeroOffsetPage), latest_page_number |-> 0],
     mem |-> [pages |-> (0 :> ZeroMemberPage), latest_page_number |-> 0],
     wal |-> <<>>]

\* BootStrapMultiXact and the counters of the first checkpoint: page 0 of each
\* log zeroed, no id assigned yet
BootState ==
    [mx |-> [nextMXact |-> FirstMultiXactId, nextOffset |-> FirstMultiXactOffset,
             oldestMultiXactId |-> FirstMultiXactId,
             oldestMultiXactDB |-> SetMin(Databases),
             multiVacLimit |-> FirstMultiXactId + autovacuum_multixact_freeze_max_age],
     off |-> [pages |-> (0 :> ZeroOffsetPage), latest_page_number |-> 0],
     mem |-> [pages |-> (0 :> ZeroMemberPage), latest_page_number |-> 0],
     wal |-> <<>>]

\* multixact_redo of one record on S (S.wal is not touched)
multixact_redo(S, record) ==
    IF record.info = "ZERO_OFF_PAGE"
    THEN ZeroMultiXactOffsetPage(S, Int64ToInt(Int64FromMemory(record.data)), FALSE)
    ELSE IF record.info = "ZERO_MEM_PAGE"
    THEN ZeroMultiXactMemberPage(S, Int64ToInt(Int64FromMemory(record.data)), FALSE)
    ELSE IF record.info = "CREATE_ID"
    THEN MultiXactAdvanceNextMXact(
             RecordNewMultiXact(S, record.mid, record.moff, record.members, TRUE),
             record.mid + 1, record.moff + record.nmembers)
    ELSE LET S1 == SetMultiXactIdLimit(S, record.endTruncOff, record.oldestMultiDB)
             S2 == PerformMembersTruncation(S1, record.startTruncMemb, record.endTruncMemb)
             S3 == [S2 EXCEPT !.off.latest_page_number =
                                  MultiXactIdToOffsetPage(record.endTruncOff)]
         IN PerformOffsetsTruncation(S3, record.startTruncOff, record.endTruncOff)

\* the records of a log replayed in log order
RECURSIVE ReplayFrom(_, _)
ReplayFrom(S, records) ==
    IF records = <<>> THEN S
    ELSE ReplayFrom(multixact_redo(S, Head(records)), Tail(records))

\* recovery from the first checkpoint
Recovered == ReplayFrom(BootState, wal)

-----------------------------------------------------------------------------
(* Creation and expansion, run without interruption *)

\* a count that finds no updating member
NoUpdates(members) == 0

NumUpdates(members) ==
    Cardinality({i \in 1..Len(members) : ISUPDATE_from_mxstatus(members[i].status)})

\* a creation that counts the updating members after it has reserved the id
CreateCheckingLate(S, cache, count, members) ==
    LET r == GetNewMultiXactId(S, Len(members))
    IN IF NumUpdates(members) > 1
       THEN [kind |-> "error", multi |-> InvalidMultiXactId, members |-> members,
             S |-> r.S, cache |-> cache, count |-> count]
       ELSE LET S1 == XLogInsertCreate(r.S, r.result, r.offset, members)
                S2 == RecordNewMultiXact(S1, r.result, r.offset, members, FALSE)
                put == mXactCachePut(cache, count, r.result, members)
            IN [kind |-> "minted", multi |-> r.result, members |-> members,
                S |-> S2, cache |-> put.cache, count |-> put.count]

\* MultiXactIdCreateFromMembers after the cache lookup missed; members is the
\* array as the lookup left it, sorted
CreateOnMiss(S, cache, count, members) ==
    IF NumUpdates(members) > 1
    THEN [kind |-> "error", multi |-> InvalidMultiXactId, members |-> members,
          S |-> S, cache |-> cache, count |-> count]
    ELSE LET r == GetNewMultiXactId(S, Len(members))
             S1 == XLogInsertCreate(r.S, r.result, r.offset, members)
             S2 == RecordNewMultiXact(S1, r.result, r.offset, members, FALSE)
             put == mXactCachePut(cache, count, r.result, members)
         IN [kind |-> "minted", multi |-> r.result, members |-> members,
             S |-> S2, cache |-> put.cache, count |-> put.count]

\* a creation that reserves an id before it looks in the cache
CreateReservingFirst(S, cache, count, members) ==
    LET g == mXactCacheGetBySet(cache, members)
    IN IF MultiXactIdIsValid(g.multi)
       THEN [kind |-> "cached", multi |-> g.multi, members |-> g.members,
             S |-> GetNewMultiXactId(S, Len(members)).S, cache |-> g.cache, count |-> count]
       ELSE CreateOnMiss(S, cache, count, g.members)

\* MultiXactIdCreateFromMembers.  kind: "cached", "error" (more than one
\* updating member), "minted"
MultiXactIdCreateFromMembers(S, cache, count, members) ==
    LET g == mXactCacheGetBySet(cache, members)
    IN IF MultiXactIdIsValid(g.multi)
       THEN [kind |-> "cached", multi |-> g.multi, members |-> g.members,
             S |-> S, cache |-> g.cache, count |-> count]
       ELSE CreateOnMiss(S, cache, count, g.members)

TransactionIdIsInProgress(xid) == xact[xid] = "in_progress"
TransactionIdDidCommit(xid) == xact[xid] = "committed"

\* a filter that keeps every member
KeepAll(members) == members

\* the members MultiXactIdExpand keeps, in their order
StillOfInterest(members) ==
    SelectSeq(members,
              LAMBDA m : \/ TransactionIdIsInProgress(m.xid)
                         \/ (ISUPDATE_from_mxstatus(m.status) /\ TransactionIdDidCommit(m.xid)))

\* an expansion without the test for a member that is there already
ExpandAlwaysCreating(S, g, multi, xid, status) ==
    IF g.kind \in {"retry", "error"}
    THEN [kind |-> g.kind, multi |-> InvalidMultiXactId, members |-> <<>>, S |-> S,
          cache |-> g.cache, count |-> g.count, visible |-> g.visible]
    ELSE [visible |-> g.visible] @@
         MultiXactIdCreateFromMembers(S, g.cache, g.count,
             Append(IF g.kind = "none" THEN <<>> ELSE StillOfInterest(g.members),
                    Member(xid, status)))

\* an expansion that reports an obsolete group to its caller
ExpandReportingObsolete(S, g, multi, xid, status) ==
    IF g.kind = "none"
    THEN [kind |-> "error", multi |-> InvalidMultiXactId, members |-> <<>>, S |-> S,
          cache |-> g.cache, count |-> g.count, visible |-> g.visible]
    ELSE ExpandAlwaysCreating(S, g, multi, xid, status)

\* MultiXactIdExpand after its call of GetMultiXactIdMembers returned g
ExpandMembers(S, g, multi, xid, status) ==
    LET base == [multi |-> InvalidMultiXactId, members |-> <<>>, S |-> S,
                 cache |-> g.cache, count |-> g.count, visible |-> g.visible]
    IN IF g.kind \in {"retry", "error"} THEN [kind |-> g.kind] @@ base
       ELSE IF g.kind = "none"
       THEN [visible |-> g.visible] @@
            MultiXactIdCreateFromMembers(S, g.cache, g.count, <<Member(xid, status)>>)
       ELSE IF \E i \in 1..Len(g.members) : g.members[i] = Member(xid, status)
       THEN [kind |-> "same", multi |-> multi, members |-> g.members, S |-> S,
             cache |-> g.cache, count |-> g.count, visible |-> g.visible]
       ELSE [visible |-> g.visible] @@
            MultiXactIdCreateFromMembers(S, g.cache, g.count,
                Append(StillOfInterest(g.members), Member(xid, status)))

\* MultiXactIdExpand.  kind: that of the lookup when it does not return
\* ("retry", "error"), "same" (already a member), else that of the creation
MultiXactIdExpand(S, cache, count, visible, oldestMember, multi, xid, status) ==
    ExpandMembers(S, GetMultiXactIdMembers(S, cache, count, visible, oldestMember, multi, FALSE),
                  multi, xid, status)

\* backend w runs the transaction with xid w
TransactionIdIsCurrentTransactionId(w, xid) == xid = w /\ TransactionIdIsInProgress(xid)

\* a test that takes every member for a running one
RunningWhateverTheMembers(g, w) ==
    [g EXCEPT !.kind = IF g.kind \in {"retry", "error"} THEN g.kind
                       ELSE IF g.kind = "none" \/ Len(g.members) <= 0 THEN "false"
                       ELSE "true"]

\* MultiXactIdIsRunning after its call of GetMultiXactIdMembers returned g.
\* kind: "true", "false", or that of the lookup when it does not return
RunningMembers(g, w) ==
    [g EXCEPT !.kind =
        IF g.kind \in {"retry", "error"} THEN g.kind
        ELSE IF g.kind = "none" \/ Len(g.members) <= 0 THEN "false"
        ELSE IF \E i \in 1..Len(g.members) :
                    TransactionIdIsCurrentTransactionId(w, g.members[i].xid)
        THEN "true"
        ELSE IF \E i \in 1..Len(g.members) : TransactionIdIsInProgress(g.members[i].xid)
        THEN "true"
        ELSE "false"]

MultiXactIdIsRunning(S, cache, count, visible, oldestMember, w, multi, isLockOnly) ==
    RunningMembers(GetMultiXactIdMembers(S, cache, count, visible, oldestMember, multi, isLockOnly), w)

-----------------------------------------------------------------------------
(* The state machine: each call runs without interruption *)

NoLocals == [op |-> "none"]

\* the word a reader finds past the sizeof(int) bytes of a zero-page record
PastRecord == {0, 1}

\* on a little-endian build that word lands in the half the conversion to int drops
LittleEndian == [bigEndian |-> FALSE, junk |-> 1]
BigEndian(junk) == [bigEndian |-> TRUE, junk |-> junk]
Builds == {LittleEndian} \cup {BigEndian(junk) : junk \in PastRecord}

InitFor(b) ==
    LET S == BootState
    IN /\ build = b
       /\ notRunning = {}
       /\ held = [w \in Backends |-> {}]
       /\ MultiXactState = S.mx
       /\ OffsetCtl = S.off
       /\ MemberCtl = S.mem
       /\ wal = S.wal
       /\ MXactCache = [w \in Backends |-> <<>>]
       /\ MXactCacheMembers = [w \in Backends |-> 0]
       /\ OldestMemberMXactId = [w \in Backends |-> InvalidMultiXactId]
       /\ OldestVisibleMXactId = [w \in Backends |-> InvalidMultiXactId]
       /\ xact = [x \in Xids |-> "in_progress"]
       /\ pc = [w \in Backends |-> "idle"]
       /\ loc = [w \in Backends |-> NoLocals]
       /\ created = <<>>
       /\ reserved = <<>>
       /\ returned = [w \in Backends |-> {}]
       /\ evicted = [w \in Backends |-> FALSE]
       /\ ret = [op |-> "none", w |-> 0, multi |-> InvalidMultiXactId,
                 kind |-> "none", members |-> <<>>, onlyLock |-> FALSE, arg |-> InvalidMultiXactId]

Init == InitFor(LittleEndian)

SetShared(S) ==
    /\ MultiXactState' = S.mx
    /\ OffsetCtl' = S.off
    /\ MemberCtl' = S.mem
    /\ wal' = S.wal

\* the explored runs stop minting after the id cap
CanMint(cap) == MultiXactState.nextMXact <= cap

MemberSet(members) == Range(members)

\* what GetNewMultiXactId handed to backend w: the id and the member range
Reservation(w, multi, offset, members) ==
    [w |-> w, multi |-> multi, offset |-> offset, members |-> members]

\* an entry of the cache is gone from the new one
Evicts(cache, newcache) ==
    \E i \in 1..Len(cache) : \A j \in 1..Len(newcache) : newcache[j].multi # cache[i].multi

Create(w, members, cap) ==
    LET r == MultiXactIdCreateFromMembers(Shared, MXactCache[w], MXactCacheMembers[w], members)
    IN /\ pc[w] = "idle"
       /\ r.kind = "minted" => CanMint(cap)
       /\ SetShared(r.S)
       /\ MXactCache' = [MXactCache EXCEPT ![w] = r.cache]
       /\ MXactCacheMembers' = [MXactCacheMembers EXCEPT ![w] = r.count]
       /\ created' = IF r.kind = "minted" THEN created @@ (r.multi :> members) ELSE created
       /\ reserved' = IF r.kind = "minted"
                      THEN Append(reserved, Reservation(w, r.multi, MultiXactState.nextOffset, members))
                      ELSE reserved
       /\ returned' = IF r.kind = "error" THEN returned
                      ELSE [returned EXCEPT ![w] = @ \cup {<<MemberSet(members), r.multi>>}]
       /\ evicted' = [evicted EXCEPT ![w] = @ \/ Evicts(MXactCache[w], r.cache)]
       /\ ret' = [op |-> "Create", w |-> w, multi |-> r.multi, kind |-> r.kind,
                  members |-> members, onlyLock |-> FALSE, arg |-> InvalidMultiXactId]
       /\ UNCHANGED <<slotVars, xact, build, held, notRunning, pc, loc>>

MultiIds == 1..(MaxMXact + 1)

\* MultiXactIdExpand; the caller has called MultiXactIdSetOldestMember and
\* passes the id of a group some Create returned, or InvalidMultiXactId: a
\* build without assertion checking compiles AssertArg to nothing and looks
\* the id up like any other
Expand(w, multi, xid, status, cap) ==
    LET r == MultiXactIdExpand(Shared, MXactCache[w], MXactCacheMembers[w],
                               OldestVisibleMXactId[w], OldestMemberMXactId, multi, xid, status)
    IN /\ pc[w] = "idle"
       /\ MultiXactIdIsValid(OldestMemberMXactId[w])
       /\ multi \in DOMAIN created \/ ~MultiXactIdIsValid(multi)
       /\ r.kind = "minted" => CanMint(cap)
       /\ SetShared(r.S)
       /\ MXactCache' = [MXactCache EXCEPT ![w] = r.cache]
       /\ MXactCacheMembers' = [MXactCacheMembers EXCEPT ![w] = r.count]
       /\ OldestVisibleMXactId' = [OldestVisibleMXactId EXCEPT ![w] = r.visible]
       /\ created' = IF r.kind = "minted" THEN created @@ (r.multi :> r.members) ELSE created
       /\ reserved' = IF r.kind = "minted"
                      THEN Append(reserved, Reservation(w, r.multi, MultiXactState.nextOffset, r.members))
                      ELSE reserved
       /\ evicted' = [evicted EXCEPT ![w] = @ \/ Evicts(MXactCache[w], r.cache)]
       /\ ret' = [op |-> "Expand", w |-> w, multi |-> r.multi, kind |-> r.kind,
                  members |-> r.members, onlyLock |-> FALSE, arg |-> multi]
       /\ UNCHANGED <<OldestMemberMXactId, xact, build, held, notRunning, pc, loc, returned>>

\* the group holds lockers only, as far as the caller can know
LockOnly(multi) ==
    multi \in DOMAIN created =>
        \A i \in 1..Len(created[multi]) : ~ISUPDATE_from_mxstatus(created[multi][i].status)

\* GetMultiXactIdMembers; a call that finds the next offset entry zero is in
\* its retry loop and has not returned (kind "retry").  A caller passes
\* onlyLock for a group it knows to hold lockers only.
Resolve(w, multi, onlyLock) ==
    LET r == GetMultiXactIdMembers(Shared, MXactCache[w], MXactCacheMembers[w],
                                   OldestVisibleMXactId[w], OldestMemberMXactId,
                                   multi, onlyLock)
    IN /\ pc[w] = "idle"
       /\ onlyLock => LockOnly(multi)
       /\ MXactCache' = [MXactCache EXCEPT ![w] = r.cache]
       /\ MXactCacheMembers' = [MXactCacheMembers EXCEPT ![w] = r.count]
       /\ OldestVisibleMXactId' = [OldestVisibleMXactId EXCEPT ![w] = r.visible]
       /\ evicted' = [evicted EXCEPT ![w] = @ \/ Evicts(MXactCache[w], r.cache)]
       /\ ret' = [op |-> "Resolve", w |-> w, multi |-> multi, kind |-> r.kind,
                  members |-> r.members, onlyLock |-> onlyLock, arg |-> multi]
       /\ UNCHANGED <<sharedVars, OldestMemberMXactId, xact, build, held, notRunning, pc, loc,
                      created, reserved, returned>>

\* TruncateMultiXact; vacuum passes a floor that is at most nextMXact
Truncate(newOldestMulti, newOldestMultiDB) ==
    LET r == TruncateMultiXact(Shared, newOldestMulti, newOldestMultiDB)
    IN /\ \A w \in Backends : pc[w] = "idle"
       /\ MultiXactIdPrecedesOrEquals(newOldestMulti, MultiXactState.nextMXact)
       /\ SetShared(r.S)
       /\ ret' = [op |-> "Truncate", w |-> 0, multi |-> newOldestMulti, kind |-> r.kind,
                  members |-> <<>>, onlyLock |-> FALSE, arg |-> InvalidMultiXactId]
       /\ UNCHANGED <<cacheVars, slotVars, xact, build, held, notRunning, pc, loc, created, reserved, returned, evicted>>

\* MultiXactIdSetOldestMember: no work when the slot is set already
MultiXactIdSetOldestMember(w) ==
    /\ pc[w] = "idle"
    /\ OldestMemberMXactId' = [OldestMemberMXactId EXCEPT ![w] =
           IF MultiXactIdIsValid(@) THEN @
           ELSE IF MultiXactState.nextMXact < FirstMultiXactId THEN FirstMultiXactId
           ELSE MultiXactState.nextMXact]
    /\ ret' = [op |-> "SetOldestMember", w |-> w, multi |-> OldestMemberMXactId'[w],
               kind |-> "none", members |-> <<>>, onlyLock |-> FALSE, arg |-> InvalidMultiXactId]
    /\ UNCHANGED <<sharedVars, cacheVars, OldestVisibleMXactId, xact, build, held, notRunning, pc, loc,
                   created, reserved, returned, evicted>>

\* an end of transaction that keeps the list of the cache
AtEOXactKeepsCache(w) ==
    /\ pc[w] = "idle"
    /\ OldestMemberMXactId' = [OldestMemberMXactId EXCEPT ![w] = InvalidMultiXactId]
    /\ OldestVisibleMXactId' = [OldestVisibleMXactId EXCEPT ![w] = InvalidMultiXactId]
    /\ ret' = [op |-> "AtEOXact", w |-> w, multi |-> InvalidMultiXactId,
               kind |-> "none", members |-> <<>>, onlyLock |-> FALSE, arg |-> InvalidMultiXactId]
    /\ UNCHANGED <<sharedVars, cacheVars, xact, build, held, notRunning, pc, loc, created,
                   reserved, returned, evicted>>

AtEOXact_MultiXact(w) ==
    /\ pc[w] = "idle"
    /\ OldestMemberMXactId' = [OldestMemberMXactId EXCEPT ![w] = InvalidMultiXactId]
    /\ OldestVisibleMXactId' = [OldestVisibleMXactId EXCEPT ![w] = InvalidMultiXactId]
    /\ MXactCache' = [MXactCache EXCEPT ![w] = <<>>]
    /\ MXactCacheMembers' = [MXactCacheMembers EXCEPT ![w] = 0]
    /\ returned' = [returned EXCEPT ![w] = {}]
    /\ evicted' = [evicted EXCEPT ![w] = FALSE]
    /\ ret' = [op |-> "AtEOXact", w |-> w, multi |-> InvalidMultiXactId,
               kind |-> "none", members |-> <<>>, onlyLock |-> FALSE, arg |-> InvalidMultiXactId]
    /\ UNCHANGED <<sharedVars, xact, build, held, notRunning, pc, loc, created, reserved>>

\* MultiXactIdIsRunning, called by backend w; a caller passes isLockOnly for
\* a group it knows to hold lockers only
IsRunning(w, multi, isLockOnly) ==
    LET r == MultiXactIdIsRunning(Shared, MXactCache[w], MXactCacheMembers[w],
                                  OldestVisibleMXactId[w], OldestMemberMXactId,
                                  w, multi, isLockOnly)
    IN /\ pc[w] = "idle"
       /\ multi \in DOMAIN created
       /\ isLockOnly => LockOnly(multi)
       /\ MXactCache' = [MXactCache EXCEPT ![w] = r.cache]
       /\ MXactCacheMembers' = [MXactCacheMembers EXCEPT ![w] = r.count]
       /\ OldestVisibleMXactId' = [OldestVisibleMXactId EXCEPT ![w] = r.visible]
       /\ evicted' = [evicted EXCEPT ![w] = @ \/ Evicts(MXactCache[w], r.cache)]
       /\ ret' = [op |-> "IsRunning", w |-> w, multi |-> multi, kind |-> r.kind,
                  members |-> r.members, onlyLock |-> isLockOnly, arg |-> multi]
       /\ notRunning' = IF r.kind = "false" THEN notRunning \cup {multi} ELSE notRunning
       /\ UNCHANGED <<sharedVars, OldestMemberMXactId, xact, build, held, pc, loc,
                      created, reserved, returned>>

\* the transaction of backend w ends: its outcome becomes visible and
\* AtEOXact_MultiXact clears the backend's slots and its cache
EndOfXact(w, outcome) ==
    /\ pc[w] = "idle"
    /\ xact[w] = "in_progress"
    /\ xact' = [xact EXCEPT ![w] = outcome]
    /\ OldestMemberMXactId' = [OldestMemberMXactId EXCEPT ![w] = InvalidMultiXactId]
    /\ OldestVisibleMXactId' = [OldestVisibleMXactId EXCEPT ![w] = InvalidMultiXactId]
    /\ MXactCache' = [MXactCache EXCEPT ![w] = <<>>]
    /\ MXactCacheMembers' = [MXactCacheMembers EXCEPT ![w] = 0]
    /\ returned' = [returned EXCEPT ![w] = {}]
    /\ evicted' = [evicted EXCEPT ![w] = FALSE]
    /\ ret' = [op |-> "EndOfXact", w |-> w, multi |-> InvalidMultiXactId, kind |-> outcome,
               members |-> <<>>, onlyLock |-> FALSE, arg |-> InvalidMultiXactId]
    /\ UNCHANGED <<sharedVars, build, held, notRunning, pc, loc, created, reserved>>

\* a transaction of the liveness oracle ends
EndXact(xid, outcome) ==
    /\ xact[xid] = "in_progress"
    /\ xact' = [xact EXCEPT ![xid] = outcome]
    /\ ret' = [op |-> "EndXact", w |-> 0, multi |-> InvalidMultiXactId, kind |-> outcome,
               members |-> <<>>, onlyLock |-> FALSE, arg |-> InvalidMultiXactId]
    /\ UNCHANGED <<sharedVars, cacheVars, slotVars, build, held, notRunning, pc, loc,
                   created, reserved, returned, evicted>>

\* backend 1 creates, both backends resolve
Next ==
    \/ \E members \in {LockerAndUpdater, UpdaterAndLocker, OneLocker, TwoUpdaters} :
           Create(1, members, MaxMXact)
    \/ \E w \in Backends, multi \in MultiIds, onlyLock \in BOOLEAN : Resolve(w, multi, onlyLock)

Spec == Init /\ [][Next]_vars

\* one backend in one unit of work, with ids enough to overflow its cache
NextCache ==
    \/ \E members \in {LockerAndUpdater, UpdaterAndLocker, OneLocker, OneUpdater} :
           Create(1, members, MaxMXact + MAX_CACHE_ENTRIES)
    \/ \E multi \in 1..(MaxMXact + MAX_CACHE_ENTRIES + 1) : Resolve(1, multi, FALSE)

SpecCache == Init /\ [][NextCache]_vars

-----------------------------------------------------------------------------
(* Creation step by step: a backend can be overtaken wherever it holds no   *)
(* lock                                                                     *)

\* the backends that released MultiXactGenLock before they took an id
Pending == Cardinality({w \in Backends : pc[w] = "relock"})

CreateLocals(given, members, seen, multi, offset) ==
    [op |-> "Create", given |-> given, members |-> members, seen |-> seen,
     multi |-> multi, offset |-> offset]

\* MultiXactIdCreateFromMembers from its entry to the first release of
\* MultiXactGenLock: the cache lookup, the update check, and GetNewMultiXactId
\* either through to the advance of the counters or, at multiVacLimit, up to
\* the release of the lock before the signal
CreateBegin(w, members, cap) ==
    LET g == mXactCacheGetBySet(MXactCache[w], members)
        S0 == FixNextMXact(Shared)
        result == S0.mx.nextMXact
        r == ReserveMultiXactId(S0, Len(members))
    IN /\ pc[w] = "idle"
       /\ IF MultiXactIdIsValid(g.multi)
          THEN /\ MXactCache' = [MXactCache EXCEPT ![w] = g.cache]
               /\ returned' = [returned EXCEPT ![w] = @ \cup {<<MemberSet(members), g.multi>>}]
               /\ ret' = [op |-> "Create", w |-> w, multi |-> g.multi, kind |-> "cached",
                          members |-> members, onlyLock |-> FALSE, arg |-> InvalidMultiXactId]
               /\ UNCHANGED <<sharedVars, pc, loc, reserved>>
          ELSE IF NumUpdates(g.members) > 1
          THEN /\ ret' = [op |-> "Create", w |-> w, multi |-> InvalidMultiXactId,
                          kind |-> "error", members |-> members, onlyLock |-> FALSE, arg |-> InvalidMultiXactId]
               /\ UNCHANGED <<sharedVars, MXactCache, pc, loc, reserved, returned>>
          ELSE /\ MultiXactState.nextMXact + Pending <= cap
               /\ IF MultiXactIdPrecedes(result, S0.mx.multiVacLimit)
                  THEN /\ SetShared(r.S)
                       /\ pc' = [pc EXCEPT ![w] = "reserved"]
                       /\ loc' = [loc EXCEPT ![w] =
                              CreateLocals(members, g.members, result, r.result, r.offset)]
                       /\ reserved' = Append(reserved,
                              Reservation(w, r.result, r.offset, g.members))
                  ELSE /\ SetShared(S0)
                       /\ pc' = [pc EXCEPT ![w] = "relock"]
                       /\ loc' = [loc EXCEPT ![w] =
                              CreateLocals(members, g.members, result, InvalidMultiXactId, 0)]
                       /\ UNCHANGED reserved
               /\ UNCHANGED <<MXactCache, returned, ret>>
       /\ UNCHANGED <<MXactCacheMembers, slotVars, xact, build, held, notRunning, created, evicted>>

\* GetNewMultiXactId from "Re-acquire lock and start over" to the release of
\* MultiXactGenLock
CreateRelock(w) ==
    LET r == ReserveMultiXactId(Shared, Len(loc[w].members))
    IN /\ pc[w] = "relock"
       /\ SetShared(r.S)
       /\ pc' = [pc EXCEPT ![w] = "reserved"]
       /\ loc' = [loc EXCEPT ![w].multi = r.result, ![w].offset = r.offset]
       /\ reserved' = Append(reserved, Reservation(w, r.result, r.offset, loc[w].members))
       /\ UNCHANGED <<cacheVars, slotVars, xact, build, held, notRunning, created, returned, evicted, ret>>

\* the create record
CreateXLogInsert(w) ==
    /\ pc[w] = "reserved"
    /\ wal' = XLogInsertCreate(Shared, loc[w].multi, loc[w].offset, loc[w].members).wal
    /\ pc' = [pc EXCEPT ![w] = "logged"]
    /\ UNCHANGED <<MultiXactState, OffsetCtl, MemberCtl, cacheVars, slotVars, xact, build, held, notRunning,
                   loc, created, reserved, returned, evicted, ret>>

\* RecordNewMultiXact under MultiXactOffsetControlLock
CreateRecordOffset(w) ==
    /\ pc[w] = "logged"
    /\ OffsetCtl' = RecordOffset(Shared, loc[w].multi, loc[w].offset, FALSE).off
    /\ pc' = [pc EXCEPT ![w] = "offset_written"]
    /\ UNCHANGED <<MultiXactState, MemberCtl, wal, cacheVars, slotVars, xact, build, held, notRunning,
                   loc, created, reserved, returned, evicted, ret>>

\* RecordNewMultiXact under MultiXactMemberControlLock, then the cache entry
\* and the return
CreateRecordMembers(w) ==
    LET put == mXactCachePut(MXactCache[w], MXactCacheMembers[w], loc[w].multi, loc[w].members)
    IN /\ pc[w] = "offset_written"
       /\ MemberCtl' = RecordMembers(Shared, loc[w].offset, loc[w].members, FALSE).mem
       /\ MXactCache' = [MXactCache EXCEPT ![w] = put.cache]
       /\ MXactCacheMembers' = [MXactCacheMembers EXCEPT ![w] = put.count]
       /\ pc' = [pc EXCEPT ![w] = "idle"]
       /\ loc' = [loc EXCEPT ![w] = NoLocals]
       /\ created' = created @@ (loc[w].multi :> loc[w].given)
       /\ returned' = [returned EXCEPT ![w] = @ \cup {<<MemberSet(loc[w].given), loc[w].multi>>}]
       /\ evicted' = [evicted EXCEPT ![w] = @ \/ Evicts(MXactCache[w], put.cache)]
       /\ ret' = [op |-> "Create", w |-> w, multi |-> loc[w].multi, kind |-> "minted",
                  members |-> loc[w].given, onlyLock |-> FALSE, arg |-> InvalidMultiXactId]
       /\ UNCHANGED <<MultiXactState, OffsetCtl, wal, slotVars, xact, build, held, notRunning, reserved>>

\* backend 1 creates, backend 2 resolves ids it finds stored, vacuum truncates
NextTrunc ==
    \/ \E members \in {OneLocker, LockerAndUpdater, OneUpdater} :
           Create(1, members, MaxMXact + 1)
    \/ \E multi \in DOMAIN created : Resolve(2, multi, FALSE)
    \/ \E newOldestMulti \in 1..(MaxMXact + 2), newOldestMultiDB \in Databases :
           Truncate(newOldestMulti, newOldestMultiDB)

SpecTrunc == Init /\ [][NextTrunc]_vars

\* backend 1 creates and expands, vacuum truncates; the build is either one
NextReplay ==
    \/ \E members \in {OneLocker, LockerAndUpdater} : Create(1, members, MaxMXact + 1)
    \/ MultiXactIdSetOldestMember(1)
    \/ \E multi \in MultiIds : Expand(1, multi, 2, MultiXactStatusForKeyShare, MaxMXact + 1)
    \/ \E newOldestMulti \in 1..(MaxMXact + 2), newOldestMultiDB \in Databases :
           Truncate(newOldestMulti, newOldestMultiDB)

SpecReplay == (\E b \in Builds : InitFor(b)) /\ [][NextReplay]_vars

\* backend 1 creates and expands while transaction 1 ends
NextExpand ==
    \/ \E members \in {OneLocker, LockerAndUpdater, OneUpdater} :
           Create(1, members, MaxMXact + 1)
    \/ MultiXactIdSetOldestMember(1)
    \/ \E multi \in MultiIds \cup {InvalidMultiXactId} :
           Expand(1, multi, 2, MultiXactStatusForKeyShare, MaxMXact + 1)
    \/ \E outcome \in {"committed", "aborted"} : EndXact(1, outcome)

SpecExpand == Init /\ [][NextExpand]_vars

\* backend 1 creates groups with and without updaters and expands them by a
\* locker or an updater while transaction 1 ends
NextUpdaters ==
    \/ \E members \in {OneLocker, OneUpdater, LockerAndUpdater, TwoUpdaters} :
           Create(1, members, MaxMXact + 1)
    \/ MultiXactIdSetOldestMember(1)
    \/ \E multi \in MultiIds, status \in {MultiXactStatusForKeyShare, MultiXactStatusUpdate} :
           Expand(1, multi, 2, status, MaxMXact + 1)
    \/ \E outcome \in {"committed", "aborted"} : EndXact(1, outcome)

SpecUpdaters == Init /\ [][NextUpdaters]_vars

\* every running member of a new group has called MultiXactIdSetOldestMember:
\* a transaction calls it before its first lock, update or delete, also when
\* it ends up using its own xid
MembersAnnounced(members) ==
    \A i \in 1..Len(members) :
        TransactionIdIsInProgress(members[i].xid) =>
            MultiXactIdIsValid(OldestMemberMXactId[members[i].xid])

SingleLocker(w) == <<Member(w, MultiXactStatusForShare)>>

\* the backends run one transaction each; backend 2 puts the transactions
\* into groups; both ask whether groups are running, also after their
\* transaction has ended
NextRunning ==
    \/ \E w \in Backends : TransactionIdIsInProgress(w) /\ MultiXactIdSetOldestMember(w)
    \/ \E members \in {SingleLocker(1), LockerAndUpdater} :
           MembersAnnounced(members) /\ Create(2, members, MaxMXact)
    \/ \E multi \in MultiIds :
           /\ TransactionIdIsInProgress(2)
           /\ Expand(2, multi, 2, MultiXactStatusForKeyShare, MaxMXact)
    \/ \E w \in Backends, multi \in MultiIds, isLockOnly \in BOOLEAN :
           IsRunning(w, multi, isLockOnly)
    \/ \E w \in Backends : EndOfXact(w, "committed")

SpecRunning == Init /\ [][NextRunning]_vars

\* the transactions of SpecRunning, and lookups of the groups by both
\* backends, with and without onlyLock
NextVisible ==
    \/ NextRunning
    \/ \E w \in Backends, multi \in MultiIds, onlyLock \in BOOLEAN :
           multi \in DOMAIN created /\ Resolve(w, multi, onlyLock)

SpecVisible == Init /\ [][NextVisible]_vars

\* two backends create concurrently
NextConc ==
    \/ \E w \in Backends, members \in {OneLocker, UpdaterAndLocker} :
           CreateBegin(w, members, MaxMXact + 1)
    \/ \E w \in Backends : CreateRelock(w)
    \/ \E w \in Backends : CreateXLogInsert(w)
    \/ \E w \in Backends : CreateRecordOffset(w)
    \/ \E w \in Backends : CreateRecordMembers(w)

SpecConc == Init /\ [][NextConc]_vars

\* a backend inside a creation is scheduled again and gets the lock it waits
\* for: no step of a creation waits for anything but an LWLock, and every
\* holder of an LWLock releases it
CreateFairness ==
    \A w \in Backends :
        /\ WF_vars(CreateRelock(w))
        /\ WF_vars(CreateXLogInsert(w))
        /\ WF_vars(CreateRecordOffset(w))
        /\ WF_vars(CreateRecordMembers(w))

SpecConcFair == SpecConc /\ CreateFairness

\* GetMultiXactIdMembers step by step: the locals of a call that missed the
\* cache
ResolveLocals(multi, nextMXact, nextOffset, retried, offset, length) ==
    [op |-> "Resolve", multi |-> multi, nextMXact |-> nextMXact, nextOffset |-> nextOffset,
     retried |-> retried, offset |-> offset, length |-> length]

\* what a step-by-step lookup returns; retried tells whether it went through
\* "goto retry"
Resolved(w, multi, kind, members, retried) ==
    [op |-> "Resolve", w |-> w, multi |-> multi, kind |-> kind, members |-> members,
     onlyLock |-> FALSE, arg |-> multi, retried |-> retried]

\* GetMultiXactIdMembers from its entry to the release of MultiXactGenLock:
\* the cache lookup, MultiXactIdSetOldestVisible, the counters saved
ResolveBegin(w, multi) ==
    LET c == mXactCacheGetById(MXactCache[w], multi)
        vis == IF MultiXactIdIsValid(OldestVisibleMXactId[w]) THEN OldestVisibleMXactId[w]
               ELSE OldestVisibleValue(MultiXactState, OldestMemberMXactId)
    IN /\ pc[w] = "idle"
       /\ multi \in DOMAIN created
       /\ IF c.length >= 0
          THEN /\ MXactCache' = [MXactCache EXCEPT ![w] = c.cache]
               /\ ret' = Resolved(w, multi, "cached", c.members, FALSE)
               /\ UNCHANGED <<OldestVisibleMXactId, pc, loc>>
          ELSE /\ OldestVisibleMXactId' = [OldestVisibleMXactId EXCEPT ![w] = vis]
               /\ pc' = [pc EXCEPT ![w] = "resolve_offsets"]
               /\ loc' = [loc EXCEPT ![w] =
                      ResolveLocals(multi, MultiXactState.nextMXact,
                                    MultiXactState.nextOffset, FALSE, 0, 0)]
               /\ UNCHANGED <<MXactCache, ret>>
       /\ UNCHANGED <<sharedVars, MXactCacheMembers, OldestMemberMXactId, xact, build, held, notRunning,
                      created, reserved, returned, evicted>>

\* the retry block under MultiXactOffsetControlLock: the lock is released
\* with the start offset and the member count, or, when the entry of the
\* next id reads 0, for a sleep and another round
ResolveReadOffsets(w) ==
    LET o == ReadOffsets(OffsetCtl, loc[w].multi, loc[w].nextMXact, loc[w].nextOffset)
    IN /\ pc[w] = "resolve_offsets"
       /\ IF o.kind = "retry"
          THEN /\ loc' = [loc EXCEPT ![w].retried = TRUE]
               /\ UNCHANGED <<pc, ret>>
          ELSE IF o.kind = "error" \/ o.length < 0
          THEN /\ pc' = [pc EXCEPT ![w] = "idle"]
               /\ loc' = [loc EXCEPT ![w] = NoLocals]
               /\ ret' = Resolved(w, loc[w].multi, "error", <<>>, loc[w].retried)
          ELSE /\ pc' = [pc EXCEPT ![w] = "resolve_members"]
               /\ loc' = [loc EXCEPT ![w].offset = o.offset, ![w].length = o.length]
               /\ UNCHANGED ret
       /\ UNCHANGED <<sharedVars, cacheVars, slotVars, xact, build, held, notRunning,
                      created, reserved, returned, evicted>>

\* the member loop under MultiXactMemberControlLock, then the cache entry and
\* the return
ResolveReadMembers(w) ==
    LET r == ReadMembers(MemberCtl, loc[w].offset, loc[w].length)
        put == mXactCachePut(MXactCache[w], MXactCacheMembers[w], loc[w].multi, r.members)
    IN /\ pc[w] = "resolve_members"
       /\ IF r.kind = "ok"
          THEN /\ MXactCache' = [MXactCache EXCEPT ![w] = put.cache]
               /\ MXactCacheMembers' = [MXactCacheMembers EXCEPT ![w] = put.count]
               /\ evicted' = [evicted EXCEPT ![w] = @ \/ Evicts(MXactCache[w], put.cache)]
          ELSE UNCHANGED <<cacheVars, evicted>>
       /\ pc' = [pc EXCEPT ![w] = "idle"]
       /\ loc' = [loc EXCEPT ![w] = NoLocals]
       /\ ret' = Resolved(w, loc[w].multi, r.kind, r.members, loc[w].retried)
       /\ UNCHANGED <<sharedVars, slotVars, xact, build, held, notRunning, created, reserved, returned>>

\* both backends create step by step; backend 2 also resolves, step by step,
\* ids that creations have returned
NextRace ==
    \/ \E w \in Backends, members \in {OneLocker, UpdaterAndLocker} :
           CreateBegin(w, members, MaxMXact + 1)
    \/ \E w \in Backends : CreateRelock(w)
    \/ \E w \in Backends : CreateXLogInsert(w)
    \/ \E w \in Backends : CreateRecordOffset(w)
    \/ \E w \in Backends : CreateRecordMembers(w)
    \/ \E multi \in MultiIds : ResolveBegin(2, multi)
    \/ ResolveReadOffsets(2)
    \/ ResolveReadMembers(2)

SpecRace == Init /\ [][NextRace]_vars

\* a backend inside a lookup is scheduled again: the retry loop sleeps 1 ms
\* and takes MultiXactOffsetControlLock again, and every holder of an LWLock
\* releases it
ResolveFairness ==
    \A w \in Backends :
        /\ WF_vars(ResolveReadOffsets(w))
        /\ WF_vars(ResolveReadMembers(w))

\* backend 1 creates step by step while backend 2 looks up, step by step,
\* ids that creations have returned
NextRetry ==
    \/ \E members \in {OneLocker, OneUpdater, UpdaterAndLocker} : CreateBegin(1, members, MaxMXact + 1)
    \/ CreateRelock(1)
    \/ CreateXLogInsert(1)
    \/ CreateRecordOffset(1)
    \/ CreateRecordMembers(1)
    \/ \E multi \in MultiIds : ResolveBegin(2, multi)
    \/ ResolveReadOffsets(2)
    \/ ResolveReadMembers(2)

SpecRetry == Init /\ [][NextRetry]_vars /\ CreateFairness /\ ResolveFairness

\* TruncateMultiXact step by step: the locals of a call that is past its
\* early returns
TruncLocals(newOldestMulti, newOldestMultiDB, t) ==
    [op |-> "Truncate", newOldestMulti |-> newOldestMulti,
     newOldestMultiDB |-> newOldestMultiDB, oldestMulti |-> t.oldestMulti,
     oldestOffset |-> t.oldestOffset, newOldestOffset |-> t.newOldestOffset]

\* what a step-by-step truncation returns
Truncated(w, newOldestMulti, kind) ==
    [op |-> "Truncate", w |-> w, multi |-> newOldestMulti, kind |-> kind,
     members |-> <<>>, onlyLock |-> FALSE, arg |-> InvalidMultiXactId]

\* TruncateMultiXact from LWLockAcquire(MultiXactTruncationLock) to
\* START_CRIT_SECTION, or to the return when there is nothing to do; vacuum
\* passes a floor that is at most nextMXact, or an id that is not on disk
TruncBegin(w, newOldestMulti, newOldestMultiDB) ==
    LET t == TruncationRange(Shared, newOldestMulti)
        h == LWLockAcquire(held, w, "MultiXactTruncationLock", "LW_EXCLUSIVE")
    IN /\ pc[w] = "idle"
       /\ LWLockFree(w, "MultiXactTruncationLock", "LW_EXCLUSIVE")
       /\ \/ MultiXactIdPrecedesOrEquals(newOldestMulti, MultiXactState.nextMXact)
          \/ ~PageExists(OffsetCtl, MultiXactIdToOffsetPage(newOldestMulti))
       /\ IF t.kind = "truncated"
          THEN /\ held' = h
               /\ pc' = [pc EXCEPT ![w] = "trunc_log"]
               /\ loc' = [loc EXCEPT ![w] = TruncLocals(newOldestMulti, newOldestMultiDB, t)]
               /\ UNCHANGED ret
          ELSE /\ held' = LWLockRelease(h, w, "MultiXactTruncationLock")
               /\ ret' = Truncated(w, newOldestMulti, t.kind)
               /\ UNCHANGED <<pc, loc>>
       /\ UNCHANGED <<sharedVars, cacheVars, slotVars, xact, build, notRunning,
                      created, reserved, returned, evicted>>

\* WriteMTruncateXlogRec: the record is inserted and flushed
TruncLog(w) ==
    /\ pc[w] = "trunc_log"
    /\ wal' = WriteMTruncateXlogRec(Shared, loc[w].newOldestMultiDB, loc[w].oldestMulti,
                                    loc[w].newOldestMulti, loc[w].oldestOffset,
                                    loc[w].newOldestOffset).wal
    /\ pc' = [pc EXCEPT ![w] = "trunc_limits"]
    /\ UNCHANGED <<MultiXactState, OffsetCtl, MemberCtl, cacheVars, slotVars, xact, build, held,
                   notRunning, loc, created, reserved, returned, evicted, ret>>

\* the limits in shared memory, under MultiXactGenLock
TruncLimits(w) ==
    /\ pc[w] = "trunc_limits"
    /\ LWLockFree(w, "MultiXactGenLock", "LW_EXCLUSIVE")
    /\ MultiXactState' = TruncationLimits(Shared, loc[w].newOldestMulti,
                                          loc[w].newOldestMultiDB).mx
    /\ pc' = [pc EXCEPT ![w] = "trunc_members"]
    /\ UNCHANGED <<OffsetCtl, MemberCtl, wal, cacheVars, slotVars, xact, build, held,
                   notRunning, loc, created, reserved, returned, evicted, ret>>

\* PerformMembersTruncation
TruncMembers(w) ==
    /\ pc[w] = "trunc_members"
    /\ MemberCtl' = PerformMembersTruncation(Shared, loc[w].oldestOffset,
                                             loc[w].newOldestOffset).mem
    /\ pc' = [pc EXCEPT ![w] = "trunc_offsets"]
    /\ UNCHANGED <<MultiXactState, OffsetCtl, wal, cacheVars, slotVars, xact, build, held,
                   notRunning, loc, created, reserved, returned, evicted, ret>>

\* PerformOffsetsTruncation, the end of the critical section and the release
\* of MultiXactTruncationLock
TruncOffsets(w) ==
    /\ pc[w] = "trunc_offsets"
    /\ OffsetCtl' = PerformOffsetsTruncation(Shared, loc[w].oldestMulti,
                                             loc[w].newOldestMulti).off
    /\ held' = LWLockRelease(held, w, "MultiXactTruncationLock")
    /\ pc' = [pc EXCEPT ![w] = "idle"]
    /\ loc' = [loc EXCEPT ![w] = NoLocals]
    /\ ret' = Truncated(w, loc[w].newOldestMulti, "truncated")
    /\ UNCHANGED <<MultiXactState, MemberCtl, wal, cacheVars, slotVars, xact, build,
                   notRunning, created, reserved, returned, evicted>>

\* the floors vacuum is asked to truncate to
Floors == 1..(MaxMXact + 3)

\* backend 1 creates; both backends truncate, step by step
NextVacuum ==
    \/ \E members \in {OneLocker, LockerAndUpdater, OneUpdater} :
           Create(1, members, MaxMXact + 1)
    \/ \E w \in Backends, newOldestMulti \in Floors, newOldestMultiDB \in Databases :
           TruncBegin(w, newOldestMulti, newOldestMultiDB)
    \/ \E w \in Backends : TruncLog(w)
    \/ \E w \in Backends : TruncLimits(w)
    \/ \E w \in Backends : TruncMembers(w)
    \/ \E w \in Backends : TruncOffsets(w)

SpecVacuum == Init /\ [][NextVacuum]_vars

\* a backend that has started a truncation takes each of its steps in the end
TruncFairness ==
    \A w \in Backends :
        WF_vars(TruncLog(w) \/ TruncLimits(w) \/ TruncMembers(w) \/ TruncOffsets(w))

SpecVacuumFair == SpecVacuum /\ TruncFairness

\* A truncation that was interrupted after its deletions: the server went
\* down and came up again with the limits of a checkpoint that is older than
\* the truncation though its redo point is past the truncate record ("the
\* page that oldestMulti is on has already been truncated away, and we
\* crashed before updating oldestMulti").  The files stay as the truncation
\* left them; what the backends held in memory is gone.  The explored runs
\* interrupt the first truncation of a run.
InterruptedTruncate(newOldestMulti, newOldestMultiDB) ==
    LET r == TruncateMultiXact(Shared, newOldestMulti, newOldestMultiDB)
    IN /\ \A w \in Backends : pc[w] = "idle"
       /\ MultiXactIdPrecedesOrEquals(newOldestMulti, MultiXactState.nextMXact)
       /\ r.kind = "truncated"
       /\ \A i \in 1..Len(wal) : wal[i].info # "TRUNCATE_ID"
       /\ SetShared([r.S EXCEPT !.mx = MultiXactState])
       /\ MXactCache' = [w \in Backends |-> <<>>]
       /\ MXactCacheMembers' = [w \in Backends |-> 0]
       /\ OldestMemberMXactId' = [w \in Backends |-> InvalidMultiXactId]
       /\ OldestVisibleMXactId' = [w \in Backends |-> InvalidMultiXactId]
       /\ returned' = [w \in Backends |-> {}]
       /\ evicted' = [w \in Backends |-> FALSE]
       /\ ret' = [op |-> "Restart", w |-> 0, multi |-> newOldestMulti, kind |-> "restarted",
                  members |-> <<>>, onlyLock |-> FALSE, arg |-> InvalidMultiXactId]
       /\ UNCHANGED <<xact, build, held, notRunning, pc, loc, created, reserved>>

\* backend 1 creates, vacuum truncates, and a truncation may be interrupted
NextInterrupted ==
    \/ \E members \in {OneLocker, LockerAndUpdater} : Create(1, members, MaxMXact + 1)
    \/ \E newOldestMulti \in 1..(MaxMXact + 2), newOldestMultiDB \in Databases :
           Truncate(newOldestMulti, newOldestMultiDB)
    \/ \E newOldestMulti \in 1..(MaxMXact + 2), newOldestMultiDB \in Databases :
           InterruptedTruncate(newOldestMulti, newOldestMultiDB)

SpecInterrupted == Init /\ [][NextInterrupted]_vars

\* the replay of a checkpoint record calls MultiXactAdvanceOldest with the
\* limit the record holds, which is at most the nextMulti it holds
AdvanceOldest(oldestMulti, oldestMultiDB) ==
    /\ \A w \in Backends : pc[w] = "idle"
    /\ MultiXactIdPrecedesOrEquals(oldestMulti, MultiXactState.nextMXact)
    /\ SetShared(MultiXactAdvanceOldest(Shared, oldestMulti, oldestMultiDB))
    /\ ret' = [op |-> "AdvanceOldest", w |-> 0, multi |-> oldestMulti, kind |-> "ok",
               members |-> <<>>, onlyLock |-> FALSE, arg |-> InvalidMultiXactId]
    /\ UNCHANGED <<cacheVars, slotVars, xact, build, held, notRunning, pc, loc,
                   created, reserved, returned, evicted>>

\* backend 1 creates, vacuum truncates, checkpoint records are replayed
NextFloor ==
    \/ \E members \in {OneLocker, LockerAndUpdater, OneUpdater} :
           Create(1, members, MaxMXact + 1)
    \/ \E newOldestMulti \in 1..(MaxMXact + 2), newOldestMultiDB \in Databases :
           Truncate(newOldestMulti, newOldestMultiDB)
    \/ \E oldestMulti \in 1..(MaxMXact + 2), oldestMultiDB \in Databases :
           AdvanceOldest(oldestMulti, oldestMultiDB)

SpecFloor == Init /\ [][NextFloor]_vars

\* the floor vacuum passes is at most GetOldestMultiXactId() of some earlier
\* moment, hence at most nextMXact and at most the id a backend inside a
\* creation has reserved
FloorFromVacuum(newOldestMulti) ==
    /\ MultiXactIdPrecedesOrEquals(newOldestMulti, MultiXactState.nextMXact)
    /\ \A v \in Backends :
           pc[v] \in {"reserved", "logged", "offset_written"} =>
               MultiXactIdPrecedesOrEquals(newOldestMulti, loc[v].multi)

\* backend 1 creates step by step while backend 2 truncates step by step; a
\* creation whose page is gone stops where it is
NextTruncRace ==
    \/ \E members \in {OneLocker, LockerAndUpdater, OneUpdater} :
           CreateBegin(1, members, MaxMXact + 1)
    \/ CreateRelock(1)
    \/ CreateXLogInsert(1)
    \/ /\ pc[1] = "logged"
       /\ PageExists(OffsetCtl, MultiXactIdToOffsetPage(loc[1].multi))
       /\ CreateRecordOffset(1)
    \/ /\ pc[1] = "offset_written"
       /\ RecordPagesExist(Shared, loc[1].multi, loc[1].offset, Len(loc[1].members))
       /\ CreateRecordMembers(1)
    \/ \E newOldestMulti \in MultiIds, newOldestMultiDB \in Databases :
           /\ FloorFromVacuum(newOldestMulti)
           /\ TruncBegin(2, newOldestMulti, newOldestMultiDB)
    \/ TruncLog(2)
    \/ TruncLimits(2)
    \/ TruncMembers(2)
    \/ TruncOffsets(2)

SpecTruncRace == Init /\ [][NextTruncRace]_vars

\* backend 1 creates step by step; backend 2 creates groups without being
\* interrupted and truncates step by step, each time to a higher floor
NextRetainRace ==
    \/ \E members \in {OneLocker, OneUpdater, LockerAndUpdater} :
           CreateBegin(1, members, MaxMXact + 2)
    \/ CreateRelock(1)
    \/ CreateXLogInsert(1)
    \/ /\ pc[1] = "logged"
       /\ PageExists(OffsetCtl, MultiXactIdToOffsetPage(loc[1].multi))
       /\ CreateRecordOffset(1)
    \/ /\ pc[1] = "offset_written"
       /\ RecordPagesExist(Shared, loc[1].multi, loc[1].offset, Len(loc[1].members))
       /\ CreateRecordMembers(1)
    \/ Create(2, OneLocker, MaxMXact + 2)
    \/ \E newOldestMulti \in MultiIds :
           /\ FloorFromVacuum(newOldestMulti)
           /\ MultiXactIdPrecedes(MultiXactState.oldestMultiXactId, newOldestMulti)
           /\ TruncBegin(2, newOldestMulti, MultiXactState.oldestMultiXactDB)
    \/ TruncLog(2)
    \/ TruncLimits(2)
    \/ TruncMembers(2)
    \/ TruncOffsets(2)

SpecRetainRace == Init /\ [][NextRetainRace]_vars

-----------------------------------------------------------------------------
(* Creation lock by lock: every LWLockAcquire and LWLockRelease of          *)
(* GetNewMultiXactId and RecordNewMultiXact is a step                       *)

\* the locals of CreateLocals, and the loop variables of ExtendMultiXactMember
\* a backend of a running cluster
IsUnderPostmaster == TRUE

\* GetNewMultiXactId's test before SendPostmasterSignal(PMSIGNAL_START_AUTOVAC_LAUNCHER)
AutovacRequestDue(result) == IsUnderPostmaster /\ result % MULTIS_PER_AUTOVAC_REQUEST = 0

\* signal: this call has sent PMSIGNAL_START_AUTOVAC_LAUNCHER
LockedLocals(given, members, seen, multi, offset, signal) ==
    [op |-> "Create", given |-> given, members |-> members, seen |-> seen,
     multi |-> multi, offset |-> offset, at |-> offset, left |-> Len(members),
     signal |-> signal]

\* MultiXactIdCreateFromMembers from its entry to GetNewMultiXactId's
\* LWLockAcquire(MultiXactGenLock): the wraparound fix and the id read under
\* the lock; at multiVacLimit the lock is released again and the signal sent
\* when it is due
LockedBegin(w, members, cap) ==
    LET g == mXactCacheGetBySet(MXactCache[w], members)
        S0 == FixNextMXact(Shared)
        result == S0.mx.nextMXact
    IN /\ pc[w] = "idle"
       /\ IF MultiXactIdIsValid(g.multi)
          THEN /\ MXactCache' = [MXactCache EXCEPT ![w] = g.cache]
               /\ returned' = [returned EXCEPT ![w] = @ \cup {<<MemberSet(members), g.multi>>}]
               /\ ret' = [op |-> "Create", w |-> w, multi |-> g.multi, kind |-> "cached",
                          members |-> members, onlyLock |-> FALSE, arg |-> InvalidMultiXactId]
               /\ UNCHANGED <<sharedVars, held, pc, loc>>
          ELSE IF NumUpdates(g.members) > 1
          THEN /\ ret' = [op |-> "Create", w |-> w, multi |-> InvalidMultiXactId,
                          kind |-> "error", members |-> members, onlyLock |-> FALSE, arg |-> InvalidMultiXactId]
               /\ UNCHANGED <<sharedVars, held, MXactCache, pc, loc, returned>>
          ELSE /\ MultiXactState.nextMXact + Pending <= cap
               /\ LWLockFree(w, "MultiXactGenLock", "LW_EXCLUSIVE")
               /\ SetShared(S0)
               /\ IF MultiXactIdPrecedes(result, S0.mx.multiVacLimit)
                  THEN /\ held' = LWLockAcquire(held, w, "MultiXactGenLock", "LW_EXCLUSIVE")
                       /\ pc' = [pc EXCEPT ![w] = "gen_locked"]
                       /\ loc' = [loc EXCEPT ![w] =
                              LockedLocals(members, g.members, result, result, S0.mx.nextOffset,
                                           FALSE)]
                  ELSE /\ held' = LWLockRelease(LWLockAcquire(held, w, "MultiXactGenLock",
                                                              "LW_EXCLUSIVE"),
                                                w, "MultiXactGenLock")
                       /\ pc' = [pc EXCEPT ![w] = "relock"]
                       /\ loc' = [loc EXCEPT ![w] =
                              LockedLocals(members, g.members, result, InvalidMultiXactId, 0,
                                           AutovacRequestDue(result))]
               /\ UNCHANGED <<MXactCache, returned, ret>>
       /\ UNCHANGED <<MXactCacheMembers, slotVars, xact, build, notRunning, created,
                      reserved, evicted>>

\* "Re-acquire lock and start over"
LockedRelock(w) ==
    /\ pc[w] = "relock"
    /\ LWLockFree(w, "MultiXactGenLock", "LW_EXCLUSIVE")
    /\ held' = LWLockAcquire(held, w, "MultiXactGenLock", "LW_EXCLUSIVE")
    /\ pc' = [pc EXCEPT ![w] = "gen_locked"]
    /\ loc' = [loc EXCEPT ![w].multi = MultiXactState.nextMXact,
                          ![w].offset = MultiXactState.nextOffset,
                          ![w].at = MultiXactState.nextOffset]
    /\ UNCHANGED <<sharedVars, cacheVars, slotVars, xact, build, notRunning, created,
                   reserved, returned, evicted, ret>>

\* ExtendMultiXactOffset up to its LWLockAcquire(MultiXactOffsetControlLock):
\* no work except at the first id of a page, and at FirstMultiXactId
ExtendOffsetLock(w) ==
    /\ pc[w] = "gen_locked"
    /\ IF MultiXactIdToOffsetEntry(loc[w].multi) # 0 /\ loc[w].multi # FirstMultiXactId
       THEN /\ pc' = [pc EXCEPT ![w] = "extend_member"]
            /\ UNCHANGED held
       ELSE /\ LWLockFree(w, "MultiXactOffsetControlLock", "LW_EXCLUSIVE")
            /\ held' = LWLockAcquire(held, w, "MultiXactOffsetControlLock", "LW_EXCLUSIVE")
            /\ pc' = [pc EXCEPT ![w] = "zero_offset"]
    /\ UNCHANGED <<sharedVars, cacheVars, slotVars, xact, build, notRunning, loc, created,
                   reserved, returned, evicted, ret>>

\* ZeroMultiXactOffsetPage with its record, and the release of
\* MultiXactOffsetControlLock
ExtendOffsetZero(w) ==
    /\ pc[w] = "zero_offset"
    /\ SetShared(ZeroMultiXactOffsetPage(Shared, MultiXactIdToOffsetPage(loc[w].multi), TRUE))
    /\ held' = LWLockRelease(held, w, "MultiXactOffsetControlLock")
    /\ pc' = [pc EXCEPT ![w] = "extend_member"]
    /\ UNCHANGED <<cacheVars, slotVars, xact, build, notRunning, loc, created,
                   reserved, returned, evicted, ret>>

\* the advance of ExtendMultiXactMember's loop to the next page
NextMemberPage(l) ==
    LET difference == MULTIXACT_MEMBERS_PER_PAGE - (l.at % MULTIXACT_MEMBERS_PER_PAGE)
    IN [l EXCEPT !.at = @ + difference, !.left = @ - difference]

\* one round of ExtendMultiXactMember's loop up to its
\* LWLockAcquire(MultiXactMemberControlLock): only at the first entry of a page
ExtendMemberLock(w) ==
    /\ pc[w] = "extend_member"
    /\ loc[w].left > 0
    /\ IF MXOffsetToFlagsOffset(loc[w].at) = 0 /\ MXOffsetToFlagsBitShift(loc[w].at) = 0
       THEN /\ LWLockFree(w, "MultiXactMemberControlLock", "LW_EXCLUSIVE")
            /\ held' = LWLockAcquire(held, w, "MultiXactMemberControlLock", "LW_EXCLUSIVE")
            /\ pc' = [pc EXCEPT ![w] = "zero_member"]
            /\ UNCHANGED loc
       ELSE /\ loc' = [loc EXCEPT ![w] = NextMemberPage(@)]
            /\ UNCHANGED <<held, pc>>
    /\ UNCHANGED <<sharedVars, cacheVars, slotVars, xact, build, notRunning, created,
                   reserved, returned, evicted, ret>>

\* ZeroMultiXactMemberPage with its record, the release of
\* MultiXactMemberControlLock, and the end of the round
ExtendMemberZero(w) ==
    /\ pc[w] = "zero_member"
    /\ SetShared(ZeroMultiXactMemberPage(Shared, MXOffsetToMemberPage(loc[w].at), TRUE))
    /\ held' = LWLockRelease(held, w, "MultiXactMemberControlLock")
    /\ pc' = [pc EXCEPT ![w] = "extend_member"]
    /\ loc' = [loc EXCEPT ![w] = NextMemberPage(@)]
    /\ UNCHANGED <<cacheVars, slotVars, xact, build, notRunning, created,
                   reserved, returned, evicted, ret>>

\* "Advance counters" and the release of MultiXactGenLock
LockedAdvance(w) ==
    /\ pc[w] = "extend_member"
    /\ loc[w].left <= 0
    /\ MultiXactState' = [MultiXactState EXCEPT !.nextMXact = @ + 1,
                                                !.nextOffset = @ + Len(loc[w].members)]
    /\ held' = LWLockRelease(held, w, "MultiXactGenLock")
    /\ pc' = [pc EXCEPT ![w] = "reserved"]
    /\ reserved' = Append(reserved,
                          Reservation(w, loc[w].multi, loc[w].offset, loc[w].members))
    /\ UNCHANGED <<OffsetCtl, MemberCtl, wal, cacheVars, slotVars, xact, build, notRunning,
                   loc, created, returned, evicted, ret>>

\* RecordNewMultiXact: LWLockAcquire(MultiXactOffsetControlLock)
RecordOffsetLock(w) ==
    /\ pc[w] = "logged"
    /\ LWLockFree(w, "MultiXactOffsetControlLock", "LW_EXCLUSIVE")
    /\ held' = LWLockAcquire(held, w, "MultiXactOffsetControlLock", "LW_EXCLUSIVE")
    /\ pc' = [pc EXCEPT ![w] = "offset_locked"]
    /\ UNCHANGED <<sharedVars, cacheVars, slotVars, xact, build, notRunning, loc, created,
                   reserved, returned, evicted, ret>>

\* the offset entry and the release of MultiXactOffsetControlLock
RecordOffsetWrite(w) ==
    /\ pc[w] = "offset_locked"
    /\ OffsetCtl' = RecordOffset(Shared, loc[w].multi, loc[w].offset, FALSE).off
    /\ held' = LWLockRelease(held, w, "MultiXactOffsetControlLock")
    /\ pc' = [pc EXCEPT ![w] = "offset_written"]
    /\ UNCHANGED <<MultiXactState, MemberCtl, wal, cacheVars, slotVars, xact, build,
                   notRunning, loc, created, reserved, returned, evicted, ret>>

\* LWLockAcquire(MultiXactMemberControlLock)
RecordMembersLock(w) ==
    /\ pc[w] = "offset_written"
    /\ LWLockFree(w, "MultiXactMemberControlLock", "LW_EXCLUSIVE")
    /\ held' = LWLockAcquire(held, w, "MultiXactMemberControlLock", "LW_EXCLUSIVE")
    /\ pc' = [pc EXCEPT ![w] = "member_locked"]
    /\ UNCHANGED <<sharedVars, cacheVars, slotVars, xact, build, notRunning, loc, created,
                   reserved, returned, evicted, ret>>

\* the members, the release of MultiXactMemberControlLock, then the cache
\* entry and the return of MultiXactIdCreateFromMembers
RecordMembersWrite(w) ==
    LET put == mXactCachePut(MXactCache[w], MXactCacheMembers[w], loc[w].multi, loc[w].members)
    IN /\ pc[w] = "member_locked"
       /\ MemberCtl' = RecordMembers(Shared, loc[w].offset, loc[w].members, FALSE).mem
       /\ held' = LWLockRelease(held, w, "MultiXactMemberControlLock")
       /\ MXactCache' = [MXactCache EXCEPT ![w] = put.cache]
       /\ MXactCacheMembers' = [MXactCacheMembers EXCEPT ![w] = put.count]
       /\ pc' = [pc EXCEPT ![w] = "idle"]
       /\ loc' = [loc EXCEPT ![w] = NoLocals]
       /\ created' = created @@ (loc[w].multi :> loc[w].given)
       /\ returned' = [returned EXCEPT ![w] = @ \cup {<<MemberSet(loc[w].given), loc[w].multi>>}]
       /\ evicted' = [evicted EXCEPT ![w] = @ \/ Evicts(MXactCache[w], put.cache)]
       /\ ret' = [op |-> "Create", w |-> w, multi |-> loc[w].multi, kind |-> "minted",
                  members |-> loc[w].given, onlyLock |-> FALSE, arg |-> InvalidMultiXactId]
       /\ UNCHANGED <<MultiXactState, OffsetCtl, wal, slotVars, xact, build, notRunning,
                      reserved>>

\* two backends create concurrently, lock by lock
NextLocks ==
    \/ \E w \in Backends, members \in {OneLocker, UpdaterAndLocker, TwoUpdaters} :
           LockedBegin(w, members, MaxMXact + 1)
    \/ \E w \in Backends : LockedRelock(w)
    \/ \E w \in Backends : ExtendOffsetLock(w)
    \/ \E w \in Backends : ExtendOffsetZero(w)
    \/ \E w \in Backends : ExtendMemberLock(w)
    \/ \E w \in Backends : ExtendMemberZero(w)
    \/ \E w \in Backends : LockedAdvance(w)
    \/ \E w \in Backends : CreateXLogInsert(w)
    \/ \E w \in Backends : RecordOffsetLock(w)
    \/ \E w \in Backends : RecordOffsetWrite(w)
    \/ \E w \in Backends : RecordMembersLock(w)
    \/ \E w \in Backends : RecordMembersWrite(w)

SpecLocks == Init /\ [][NextLocks]_vars

-----------------------------------------------------------------------------
(* The slots lock by lock: MultiXactIdSetOldestMember reads nextMXact under *)
(* MultiXactGenLock held shared, MultiXactIdSetOldestVisible scans the      *)
(* slots under MultiXactGenLock held exclusive                              *)

\* MultiXactIdSetOldestMember up to the read of nextMXact; no work when the
\* slot is set already
SetOldestMemberLock(w) ==
    /\ pc[w] = "idle"
    /\ IF MultiXactIdIsValid(OldestMemberMXactId[w])
       THEN /\ ret' = [op |-> "SetOldestMember", w |-> w, multi |-> OldestMemberMXactId[w],
                       kind |-> "kept", members |-> <<>>, onlyLock |-> FALSE,
                       arg |-> InvalidMultiXactId]
            /\ UNCHANGED <<held, pc, loc>>
       ELSE /\ LWLockFree(w, "MultiXactGenLock", "LW_SHARED")
            /\ held' = LWLockAcquire(held, w, "MultiXactGenLock", "LW_SHARED")
            /\ pc' = [pc EXCEPT ![w] = "member_slot"]
            /\ loc' = [loc EXCEPT ![w] =
                   [op |-> "SetOldestMember",
                    nextMXact |-> IF MultiXactState.nextMXact < FirstMultiXactId
                                  THEN FirstMultiXactId ELSE MultiXactState.nextMXact]]
            /\ UNCHANGED ret
    /\ UNCHANGED <<sharedVars, cacheVars, slotVars, xact, build, notRunning, created,
                   reserved, returned, evicted>>

\* the store into OldestMemberMXactId[MyBackendId] and the release
SetOldestMemberStore(w) ==
    /\ pc[w] = "member_slot"
    /\ OldestMemberMXactId' = [OldestMemberMXactId EXCEPT ![w] = loc[w].nextMXact]
    /\ held' = LWLockRelease(held, w, "MultiXactGenLock")
    /\ pc' = [pc EXCEPT ![w] = "idle"]
    /\ loc' = [loc EXCEPT ![w] = NoLocals]
    /\ ret' = [op |-> "SetOldestMember", w |-> w, multi |-> loc[w].nextMXact,
               kind |-> "set", members |-> <<>>, onlyLock |-> FALSE,
               arg |-> InvalidMultiXactId]
    /\ UNCHANGED <<sharedVars, cacheVars, OldestVisibleMXactId, xact, build, notRunning,
                   created, reserved, returned, evicted>>

\* MultiXactIdSetOldestVisible up to the end of its scan of the slots; no
\* work when the slot is set already
SetOldestVisibleLock(w) ==
    /\ pc[w] = "idle"
    /\ IF MultiXactIdIsValid(OldestVisibleMXactId[w])
       THEN /\ ret' = [op |-> "SetOldestVisible", w |-> w, multi |-> OldestVisibleMXactId[w],
                       kind |-> "kept", members |-> <<>>, onlyLock |-> FALSE,
                       arg |-> InvalidMultiXactId]
            /\ UNCHANGED <<held, pc, loc>>
       ELSE /\ LWLockFree(w, "MultiXactGenLock", "LW_EXCLUSIVE")
            /\ held' = LWLockAcquire(held, w, "MultiXactGenLock", "LW_EXCLUSIVE")
            /\ pc' = [pc EXCEPT ![w] = "visible_slot"]
            /\ loc' = [loc EXCEPT ![w] =
                   [op |-> "SetOldestVisible",
                    oldestMXact |-> OldestVisibleValue(MultiXactState, OldestMemberMXactId)]]
            /\ UNCHANGED ret
    /\ UNCHANGED <<sharedVars, cacheVars, slotVars, xact, build, notRunning, created,
                   reserved, returned, evicted>>

\* the store into OldestVisibleMXactId[MyBackendId] and the release
SetOldestVisibleStore(w) ==
    /\ pc[w] = "visible_slot"
    /\ OldestVisibleMXactId' = [OldestVisibleMXactId EXCEPT ![w] = loc[w].oldestMXact]
    /\ held' = LWLockRelease(held, w, "MultiXactGenLock")
    /\ pc' = [pc EXCEPT ![w] = "idle"]
    /\ loc' = [loc EXCEPT ![w] = NoLocals]
    /\ ret' = [op |-> "SetOldestVisible", w |-> w, multi |-> loc[w].oldestMXact,
               kind |-> "set", members |-> <<>>, onlyLock |-> FALSE,
               arg |-> InvalidMultiXactId]
    /\ UNCHANGED <<sharedVars, cacheVars, OldestMemberMXactId, xact, build, notRunning,
                   created, reserved, returned, evicted>>

\* both backends set their slots and end their transactions; backend 2
\* creates groups lock by lock
NextSlots ==
    \/ \E w \in Backends : SetOldestMemberLock(w)
    \/ \E w \in Backends : SetOldestMemberStore(w)
    \/ \E w \in Backends : SetOldestVisibleLock(w)
    \/ \E w \in Backends : SetOldestVisibleStore(w)
    \/ \E w \in Backends : AtEOXact_MultiXact(w)
    \/ LockedBegin(2, OneLocker, MaxMXact + 1)
    \/ LockedRelock(2)
    \/ ExtendOffsetLock(2)
    \/ ExtendOffsetZero(2)
    \/ ExtendMemberLock(2)
    \/ ExtendMemberZero(2)
    \/ LockedAdvance(2)
    \/ CreateXLogInsert(2)
    \/ RecordOffsetLock(2)
    \/ RecordOffsetWrite(2)
    \/ RecordMembersLock(2)
    \/ RecordMembersWrite(2)

SpecSlots == Init /\ [][NextSlots]_vars

\* backend 1 creates, both backends look groups up, in transaction after
\* transaction
NextUnits ==
    \/ \E members \in {OneLocker, LockerAndUpdater} : Create(1, members, MaxMXact)
    \/ \E w \in Backends, multi \in MultiIds : Resolve(w, multi, FALSE)
    \/ MultiXactIdSetOldestMember(2)
    \/ \E w \in Backends : AtEOXact_MultiXact(w)

SpecUnits == Init /\ [][NextUnits]_vars

-----------------------------------------------------------------------------
(* Prepared transactions.  OldestMemberMXactId has a slot for every backend *)
(* followed by a slot for every prepared transaction.                       *)

\* the slot reserved for the prepared transaction xid
TwoPhaseGetDummyBackendId(xid) == Cardinality(Backends) + xid

\* 1..MaxOldestSlot with a prepared transaction for each xid
OldestSlots == Backends \cup {TwoPhaseGetDummyBackendId(xid) : xid \in Xids}

\* the state after startup with max_prepared_xacts slots in the array
InitTwoPhase ==
    LET S == BootState
    IN /\ build = LittleEndian
       /\ notRunning = {}
       /\ held = [w \in Backends |-> {}]
       /\ MultiXactState = S.mx
       /\ OffsetCtl = S.off
       /\ MemberCtl = S.mem
       /\ wal = S.wal
       /\ MXactCache = [w \in Backends |-> <<>>]
       /\ MXactCacheMembers = [w \in Backends |-> 0]
       /\ OldestMemberMXactId = [i \in OldestSlots |-> InvalidMultiXactId]
       /\ OldestVisibleMXactId = [w \in Backends |-> InvalidMultiXactId]
       /\ xact = [x \in Xids |-> "in_progress"]
       /\ pc = [w \in Backends |-> "idle"]
       /\ loc = [w \in Backends |-> NoLocals]
       /\ created = <<>>
       /\ reserved = <<>>
       /\ returned = [w \in Backends |-> {}]
       /\ evicted = [w \in Backends |-> FALSE]
       /\ ret = [op |-> "none", w |-> 0, multi |-> InvalidMultiXactId,
                 kind |-> "none", members |-> <<>>, onlyLock |-> FALSE, arg |-> InvalidMultiXactId]

\* a prepare that never fills the slot of the prepared transaction
KeepDummySlot(oldestMember, dummyBackendId, myOldestMember) == oldestMember

\* OldestMemberMXactId[dummyBackendId] = myOldestMember
StoreDummySlot(oldestMember, dummyBackendId, myOldestMember) ==
    [oldestMember EXCEPT ![dummyBackendId] = myOldestMember]

\* PostPrepare_MultiXact(xid) in backend w, whose transaction is xid w, up to
\* its LWLockAcquire(MultiXactGenLock); with no OldestMemberMXactId of its
\* own it takes no lock
PostPrepareLock(w) ==
    /\ pc[w] = "idle"
    /\ xact[w] = "in_progress"
    /\ xact' = [xact EXCEPT ![w] = "prepared"]
    /\ IF MultiXactIdIsValid(OldestMemberMXactId[w])
       THEN /\ LWLockFree(w, "MultiXactGenLock", "LW_EXCLUSIVE")
            /\ held' = LWLockAcquire(held, w, "MultiXactGenLock", "LW_EXCLUSIVE")
            /\ pc' = [pc EXCEPT ![w] = "prepare_locked"]
            /\ loc' = [loc EXCEPT ![w] =
                   [op |-> "PostPrepare", myOldestMember |-> OldestMemberMXactId[w],
                    dummyBackendId |-> TwoPhaseGetDummyBackendId(w)]]
       ELSE /\ pc' = [pc EXCEPT ![w] = "prepare_unlocked"]
            /\ loc' = [loc EXCEPT ![w] =
                   [op |-> "PostPrepare", myOldestMember |-> InvalidMultiXactId,
                    dummyBackendId |-> TwoPhaseGetDummyBackendId(w)]]
            /\ UNCHANGED held
    /\ UNCHANGED <<sharedVars, cacheVars, slotVars, build, notRunning, created, reserved,
                   returned, evicted, ret>>

\* the store into the slot of the prepared transaction
PostPrepareStore(w) ==
    /\ pc[w] = "prepare_locked"
    /\ OldestMemberMXactId' = StoreDummySlot(OldestMemberMXactId, loc[w].dummyBackendId,
                                             loc[w].myOldestMember)
    /\ pc' = [pc EXCEPT ![w] = "prepare_stored"]
    /\ UNCHANGED <<sharedVars, cacheVars, OldestVisibleMXactId, xact, build, held, notRunning,
                   loc, created, reserved, returned, evicted, ret>>

\* the reset of the backend's own slot and the release
PostPrepareReset(w) ==
    /\ pc[w] = "prepare_stored"
    /\ OldestMemberMXactId' = [OldestMemberMXactId EXCEPT ![w] = InvalidMultiXactId]
    /\ held' = LWLockRelease(held, w, "MultiXactGenLock")
    /\ pc' = [pc EXCEPT ![w] = "prepare_unlocked"]
    /\ UNCHANGED <<sharedVars, cacheVars, OldestVisibleMXactId, xact, build, notRunning,
                   loc, created, reserved, returned, evicted, ret>>

\* the reset of OldestVisibleMXactId[MyBackendId] and of the cache, without a lock
PostPrepareDiscard(w) ==
    /\ pc[w] = "prepare_unlocked"
    /\ OldestVisibleMXactId' = [OldestVisibleMXactId EXCEPT ![w] = InvalidMultiXactId]
    /\ MXactCache' = [MXactCache EXCEPT ![w] = <<>>]
    /\ MXactCacheMembers' = [MXactCacheMembers EXCEPT ![w] = 0]
    /\ returned' = [returned EXCEPT ![w] = {}]
    /\ evicted' = [evicted EXCEPT ![w] = FALSE]
    /\ pc' = [pc EXCEPT ![w] = "idle"]
    /\ loc' = [loc EXCEPT ![w] = NoLocals]
    /\ ret' = [op |-> "PostPrepare", w |-> w, multi |-> loc[w].myOldestMember,
               kind |-> "none", members |-> <<>>, onlyLock |-> FALSE, arg |-> w]
    /\ UNCHANGED <<sharedVars, OldestMemberMXactId, xact, build, held, notRunning, created,
                   reserved>>

\* multixact_twophase_postcommit and multixact_twophase_postabort for the
\* prepared transaction xid, in whatever backend finishes it
multixact_twophase_postcommit(xid, outcome) ==
    /\ xact[xid] = "prepared"
    /\ pc[xid] = "idle"
    /\ xact' = [xact EXCEPT ![xid] = outcome]
    /\ OldestMemberMXactId' =
           [OldestMemberMXactId EXCEPT ![TwoPhaseGetDummyBackendId(xid)] = InvalidMultiXactId]
    /\ ret' = [op |-> "twophase_postcommit", w |-> 0, multi |-> InvalidMultiXactId,
               kind |-> outcome, members |-> <<>>, onlyLock |-> FALSE, arg |-> xid]
    /\ UNCHANGED <<sharedVars, cacheVars, OldestVisibleMXactId, build, held, notRunning, pc,
                   loc, created, reserved, returned, evicted>>

\* the oldest of nextMXact and the valid entries of both arrays
OldestOfSlots(mx, oldestMember, oldestVisible) ==
    LET nextMXact == IF mx.nextMXact < FirstMultiXactId THEN FirstMultiXactId
                     ELSE mx.nextMXact
        valid == ({oldestMember[i] : i \in DOMAIN oldestMember}
                      \cup {oldestVisible[i] : i \in DOMAIN oldestVisible})
                     \ {InvalidMultiXactId}
    IN SetMin({nextMXact} \cup valid)

\* GetOldestMultiXactId in backend w: the scan under MultiXactGenLock
GetOldestLock(w) ==
    /\ pc[w] = "idle"
    /\ LWLockFree(w, "MultiXactGenLock", "LW_SHARED")
    /\ held' = LWLockAcquire(held, w, "MultiXactGenLock", "LW_SHARED")
    /\ pc' = [pc EXCEPT ![w] = "oldest_scan"]
    /\ loc' = [loc EXCEPT ![w] =
           [op |-> "GetOldestMultiXactId",
            oldestMXact |-> OldestOfSlots(MultiXactState, OldestMemberMXactId,
                                          OldestVisibleMXactId)]]
    /\ UNCHANGED <<sharedVars, cacheVars, slotVars, xact, build, notRunning, created,
                   reserved, returned, evicted, ret>>

\* the release and the return
GetOldestRelease(w) ==
    /\ pc[w] = "oldest_scan"
    /\ held' = LWLockRelease(held, w, "MultiXactGenLock")
    /\ pc' = [pc EXCEPT ![w] = "idle"]
    /\ loc' = [loc EXCEPT ![w] = NoLocals]
    /\ ret' = [op |-> "GetOldestMultiXactId", w |-> w, multi |-> loc[w].oldestMXact,
               kind |-> "ok", members |-> <<>>, onlyLock |-> FALSE,
               arg |-> InvalidMultiXactId]
    /\ UNCHANGED <<sharedVars, cacheVars, slotVars, xact, build, notRunning, created,
                   reserved, returned, evicted>>

\* the backends set their slots, prepare their transactions or end them,
\* and ask for the oldest id; prepared transactions are finished; backend 2
\* creates groups
NextTwoPhase ==
    \/ \E w \in Backends : SetOldestMemberLock(w)
    \/ \E w \in Backends : SetOldestMemberStore(w)
    \/ \E w \in Backends : SetOldestVisibleLock(w)
    \/ \E w \in Backends : SetOldestVisibleStore(w)
    \/ \E w \in Backends : AtEOXact_MultiXact(w)
    \/ \E w \in Backends : PostPrepareLock(w)
    \/ \E w \in Backends : PostPrepareStore(w)
    \/ \E w \in Backends : PostPrepareReset(w)
    \/ \E w \in Backends : PostPrepareDiscard(w)
    \/ \E xid \in Xids, outcome \in {"committed", "aborted"} :
           multixact_twophase_postcommit(xid, outcome)
    \/ \E w \in Backends : GetOldestLock(w)
    \/ \E w \in Backends : GetOldestRelease(w)
    \/ (\A w \in Backends : held[w] = {}) /\ Create(2, OneLocker, MaxMXact)

SpecTwoPhase == InitTwoPhase /\ [][NextTwoPhase]_vars

-----------------------------------------------------------------------------
(* Truncation, lookup and the limits lock by lock *)

\* TruncateMultiXact up to LWLockAcquire(MultiXactTruncationLock)
TruncAcquire(w, newOldestMulti, newOldestMultiDB) ==
    /\ pc[w] = "idle"
    /\ LWLockFree(w, "MultiXactTruncationLock", "LW_EXCLUSIVE")
    /\ \/ MultiXactIdPrecedesOrEquals(newOldestMulti, MultiXactState.nextMXact)
       \/ ~PageExists(OffsetCtl, MultiXactIdToOffsetPage(newOldestMulti))
    /\ held' = LWLockAcquire(held, w, "MultiXactTruncationLock", "LW_EXCLUSIVE")
    /\ pc' = [pc EXCEPT ![w] = "trunc_acquired"]
    /\ loc' = [loc EXCEPT ![w] = [op |-> "Truncate", newOldestMulti |-> newOldestMulti,
                                  newOldestMultiDB |-> newOldestMultiDB]]
    /\ UNCHANGED <<sharedVars, cacheVars, slotVars, xact, build, notRunning, created,
                   reserved, returned, evicted, ret>>

\* LWLockAcquire(MultiXactGenLock, LW_SHARED) and the counters read under it
TruncGenLock(w) ==
    /\ pc[w] = "trunc_acquired"
    /\ LWLockFree(w, "MultiXactGenLock", "LW_SHARED")
    /\ held' = LWLockAcquire(held, w, "MultiXactGenLock", "LW_SHARED")
    /\ pc' = [pc EXCEPT ![w] = "trunc_gen_shared"]
    /\ loc' = [loc EXCEPT ![w] = @ @@ [mx |-> MultiXactState]]
    /\ UNCHANGED <<sharedVars, cacheVars, slotVars, xact, build, notRunning, created,
                   reserved, returned, evicted, ret>>

\* what the truncation finds with the counters it read and the pages as they are
TruncFound(w) == TruncationRange([Shared EXCEPT !.mx = loc[w].mx], loc[w].newOldestMulti)

\* the release of MultiXactGenLock, and the returns before
\* find_multixact_start: nothing to truncate, or the page of oldestMulti
\* is no longer in the directory
TruncGenUnlock(w) ==
    LET h == LWLockRelease(held, w, "MultiXactGenLock")
        t == TruncFound(w)
    IN /\ pc[w] = "trunc_gen_shared"
       /\ IF t.kind \in {"nothing_to_truncate", "already_removed"}
          THEN /\ held' = LWLockRelease(h, w, "MultiXactTruncationLock")
               /\ pc' = [pc EXCEPT ![w] = "idle"]
               /\ loc' = [loc EXCEPT ![w] = NoLocals]
               /\ ret' = Truncated(w, loc[w].newOldestMulti, t.kind)
          ELSE /\ held' = h
               /\ pc' = [pc EXCEPT ![w] = "trunc_find"]
               /\ UNCHANGED <<loc, ret>>
       /\ UNCHANGED <<sharedVars, cacheVars, slotVars, xact, build, notRunning, created,
                      reserved, returned, evicted>>

\* find_multixact_start: the offsets page is read under
\* MultiXactOffsetControlLock, which SimpleLruReadPage_ReadOnly takes
TruncFindLock(w) ==
    /\ pc[w] = "trunc_find"
    /\ LWLockFree(w, "MultiXactOffsetControlLock", "LW_SHARED")
    /\ held' = LWLockAcquire(held, w, "MultiXactOffsetControlLock", "LW_SHARED")
    /\ pc' = [pc EXCEPT ![w] = "trunc_find_locked"]
    /\ UNCHANGED <<sharedVars, cacheVars, slotVars, xact, build, notRunning, loc, created,
                   reserved, returned, evicted, ret>>

\* the release in find_multixact_start; the truncation is skipped when an
\* offset is not found
TruncFindUnlock(w) ==
    LET h == LWLockRelease(held, w, "MultiXactOffsetControlLock")
        t == TruncFound(w)
    IN /\ pc[w] = "trunc_find_locked"
       /\ IF t.kind = "truncated"
          THEN /\ held' = h
               /\ pc' = [pc EXCEPT ![w] = "trunc_log"]
               /\ loc' = [loc EXCEPT ![w] =
                      TruncLocals(loc[w].newOldestMulti, loc[w].newOldestMultiDB, t)]
               /\ UNCHANGED ret
          ELSE /\ held' = LWLockRelease(h, w, "MultiXactTruncationLock")
               /\ pc' = [pc EXCEPT ![w] = "idle"]
               /\ loc' = [loc EXCEPT ![w] = NoLocals]
               /\ ret' = Truncated(w, loc[w].newOldestMulti, t.kind)
       /\ UNCHANGED <<sharedVars, cacheVars, slotVars, xact, build, notRunning, created,
                      reserved, returned, evicted>>

\* LWLockAcquire(MultiXactGenLock, LW_EXCLUSIVE) in the critical section
TruncLimitsLock(w) ==
    /\ pc[w] = "trunc_limits"
    /\ LWLockFree(w, "MultiXactGenLock", "LW_EXCLUSIVE")
    /\ held' = LWLockAcquire(held, w, "MultiXactGenLock", "LW_EXCLUSIVE")
    /\ pc' = [pc EXCEPT ![w] = "trunc_limits_locked"]
    /\ UNCHANGED <<sharedVars, cacheVars, slotVars, xact, build, notRunning, loc, created,
                   reserved, returned, evicted, ret>>

\* the limits in shared memory and the release
TruncLimitsStore(w) ==
    /\ pc[w] = "trunc_limits_locked"
    /\ MultiXactState' = TruncationLimits(Shared, loc[w].newOldestMulti,
                                          loc[w].newOldestMultiDB).mx
    /\ held' = LWLockRelease(held, w, "MultiXactGenLock")
    /\ pc' = [pc EXCEPT ![w] = "trunc_members"]
    /\ UNCHANGED <<OffsetCtl, MemberCtl, wal, cacheVars, slotVars, xact, build,
                   notRunning, loc, created, reserved, returned, evicted, ret>>

\* PerformMembersTruncation: SlruDeleteSegment takes MultiXactMemberControlLock
TruncMembersLock(w) ==
    /\ pc[w] = "trunc_members"
    /\ LWLockFree(w, "MultiXactMemberControlLock", "LW_EXCLUSIVE")
    /\ held' = LWLockAcquire(held, w, "MultiXactMemberControlLock", "LW_EXCLUSIVE")
    /\ pc' = [pc EXCEPT ![w] = "trunc_members_locked"]
    /\ UNCHANGED <<sharedVars, cacheVars, slotVars, xact, build, notRunning, loc, created,
                   reserved, returned, evicted, ret>>

\* the segments are deleted and the lock released
TruncMembersDelete(w) ==
    /\ pc[w] = "trunc_members_locked"
    /\ MemberCtl' = PerformMembersTruncation(Shared, loc[w].oldestOffset,
                                             loc[w].newOldestOffset).mem
    /\ held' = LWLockRelease(held, w, "MultiXactMemberControlLock")
    /\ pc' = [pc EXCEPT ![w] = "trunc_offsets"]
    /\ UNCHANGED <<MultiXactState, OffsetCtl, wal, cacheVars, slotVars, xact, build,
                   notRunning, loc, created, reserved, returned, evicted, ret>>

\* PerformOffsetsTruncation: SimpleLruTruncate takes MultiXactOffsetControlLock
TruncOffsetsLock(w) ==
    /\ pc[w] = "trunc_offsets"
    /\ LWLockFree(w, "MultiXactOffsetControlLock", "LW_EXCLUSIVE")
    /\ held' = LWLockAcquire(held, w, "MultiXactOffsetControlLock", "LW_EXCLUSIVE")
    /\ pc' = [pc EXCEPT ![w] = "trunc_offsets_locked"]
    /\ UNCHANGED <<sharedVars, cacheVars, slotVars, xact, build, notRunning, loc, created,
                   reserved, returned, evicted, ret>>

\* the pages are removed, the lock released, and MultiXactTruncationLock
\* released at the end of the critical section
TruncOffsetsDelete(w) ==
    /\ pc[w] = "trunc_offsets_locked"
    /\ OffsetCtl' = PerformOffsetsTruncation(Shared, loc[w].oldestMulti,
                                             loc[w].newOldestMulti).off
    /\ held' = LWLockRelease(LWLockRelease(held, w, "MultiXactOffsetControlLock"),
                             w, "MultiXactTruncationLock")
    /\ pc' = [pc EXCEPT ![w] = "idle"]
    /\ loc' = [loc EXCEPT ![w] = NoLocals]
    /\ ret' = Truncated(w, loc[w].newOldestMulti, "truncated")
    /\ UNCHANGED <<MultiXactState, MemberCtl, wal, cacheVars, slotVars, xact, build,
                   notRunning, created, reserved, returned, evicted>>

\* GetMultiXactIdMembers: a lookup the cache does not answer takes
\* MultiXactGenLock, exclusively in MultiXactIdSetOldestVisible when the
\* backend has no OldestVisibleMXactId, then shared for the counters
ResolveBeginLocked(w, multi) ==
    /\ \/ mXactCacheGetById(MXactCache[w], multi).length >= 0
       \/ LWLockFree(w, "MultiXactGenLock",
                     IF MultiXactIdIsValid(OldestVisibleMXactId[w]) THEN "LW_SHARED"
                     ELSE "LW_EXCLUSIVE")
    /\ ResolveBegin(w, multi)

\* the offsets are read under MultiXactOffsetControlLock
ResolveReadOffsetsLocked(w) ==
    /\ LWLockFree(w, "MultiXactOffsetControlLock", "LW_EXCLUSIVE")
    /\ ResolveReadOffsets(w)

\* the members are read under MultiXactMemberControlLock
ResolveReadMembersLocked(w) ==
    /\ LWLockFree(w, "MultiXactMemberControlLock", "LW_EXCLUSIVE")
    /\ ResolveReadMembers(w)

\* SetMultiXactIdLimit in backend w, with the oldest datminmxid of the
\* databases, under MultiXactGenLock
SetLimit(w, oldest_datminmxid, oldest_datoid) ==
    /\ pc[w] = "idle"
    /\ MultiXactIdIsValid(oldest_datminmxid)
    /\ MultiXactIdPrecedesOrEquals(MultiXactState.oldestMultiXactId, oldest_datminmxid)
    /\ MultiXactIdPrecedesOrEquals(oldest_datminmxid, MultiXactState.nextMXact)
    /\ LWLockFree(w, "MultiXactGenLock", "LW_EXCLUSIVE")
    /\ SetShared(SetMultiXactIdLimit(Shared, oldest_datminmxid, oldest_datoid))
    /\ ret' = [op |-> "SetMultiXactIdLimit", w |-> w, multi |-> oldest_datminmxid,
               kind |-> "ok", members |-> <<>>, onlyLock |-> FALSE,
               arg |-> InvalidMultiXactId]
    /\ UNCHANGED <<cacheVars, slotVars, xact, build, held, notRunning, pc, loc,
                   created, reserved, returned, evicted>>

\* the steps of backend w in a creation
CreateSteps(w) ==
    \/ LockedRelock(w) \/ ExtendOffsetLock(w) \/ ExtendOffsetZero(w) \/ ExtendMemberLock(w)
    \/ ExtendMemberZero(w) \/ LockedAdvance(w) \/ CreateXLogInsert(w) \/ RecordOffsetLock(w)
    \/ RecordOffsetWrite(w) \/ RecordMembersLock(w) \/ RecordMembersWrite(w)

\* the steps of backend w in a truncation
TruncSteps(w) ==
    \/ TruncGenLock(w) \/ TruncGenUnlock(w) \/ TruncFindLock(w) \/ TruncFindUnlock(w)
    \/ TruncLog(w) \/ TruncLimitsLock(w) \/ TruncLimitsStore(w) \/ TruncMembersLock(w)
    \/ TruncMembersDelete(w) \/ TruncOffsetsLock(w) \/ TruncOffsetsDelete(w)

\* the steps of backend w in a lookup or in a slot function
ReadSteps(w) ==
    \/ ResolveReadOffsetsLocked(w) \/ ResolveReadMembersLocked(w)
    \/ SetOldestMemberStore(w)

\* backend 1 creates and sets its slot; backend 2 looks groups up, truncates
\* and sets the limits
NextOrder ==
    \/ \E members \in {OneLocker, LockerAndUpdater} : LockedBegin(1, members, MaxMXact + 1)
    \/ CreateSteps(1)
    \/ \E newOldestMulti \in 2..(MaxMXact + 1) : TruncAcquire(2, newOldestMulti, 1)
    \/ TruncSteps(2)
    \/ \E multi \in MultiIds : ResolveBeginLocked(2, multi)
    \/ SetOldestMemberLock(1)
    \/ \E w \in Backends : ReadSteps(w)
    \/ SetLimit(2, MultiXactState.nextMXact, 1)

SpecOrder == Init /\ [][NextOrder]_vars

\* the records a recovering server may find in the log: create records for
\* any id, at a low or a high offset, and zero-page records
RedoRecords ==
    {[info |-> "CREATE_ID", mid |-> multi, moff |-> offset,
      nmembers |-> Len(members), members |-> members] :
        multi \in MultiIds, offset \in {FirstMultiXactOffset, MaxMXact + 1},
        members \in {OneLocker, LockerAndUpdater}}
    \cup {[info |-> info, data |-> FirstWordInMemory(PageAsInt64(1))] :
              info \in {"ZERO_OFF_PAGE", "ZERO_MEM_PAGE"}}

\* multixact_redo of the next record of the log; wal holds the records
\* replayed so far
Redo(record) ==
    LET R == multixact_redo(Shared, record)
    IN /\ Len(wal) <= MaxMXact
       /\ MultiXactState' = R.mx
       /\ OffsetCtl' = R.off
       /\ MemberCtl' = R.mem
       /\ wal' = Append(wal, record)
       /\ ret' = [op |-> "Redo", w |-> 0,
                  multi |-> IF record.info = "CREATE_ID" THEN record.mid ELSE InvalidMultiXactId,
                  kind |-> record.info,
                  members |-> IF record.info = "CREATE_ID" THEN record.members ELSE <<>>,
                  onlyLock |-> FALSE, arg |-> InvalidMultiXactId]
       /\ UNCHANGED <<cacheVars, slotVars, xact, build, held, notRunning, pc, loc, created, reserved,
                      returned, evicted>>

\* a server in recovery replays records in whatever order the log has them
NextRedo == \E record \in RedoRecords : Redo(record)

SpecRedo == Init /\ [][NextRedo]_vars

-----------------------------------------------------------------------------
(* The round trip of a group through creation and resolution *)

\* the call that completed last is a Resolve of an id some Create minted
ResolvedCreated == ret.op = "Resolve" /\ ret.multi \in DOMAIN created

\* the Resolve returned the members the id was created with
SameMembers ==
    /\ ret.kind \in {"cached", "ok"}
    /\ MemberSet(ret.members) = MemberSet(created[ret.multi])
    /\ Len(ret.members) = Len(created[ret.multi])

\* C1 as stated: every Resolve of an id a Create returned gives back exactly
\* the member set the id was created with, whatever the order of the array
\* passed to Create, from the cache and from the two logs.
RoundTripAlways == ResolvedCreated => SameMembers

\* C1, amended: every Resolve of an id a Create returned gives back exactly
\* the member set the id was created with, from the cache and from the logs,
\* except that a Resolve told the group only locks returns no members when
\* the id is not cached and precedes the caller's oldest-visible id.
RoundTrip ==
    ResolvedCreated =>
        \/ SameMembers
        \/ /\ ret.onlyLock
           /\ ret.kind = "none"
           /\ MultiXactIdPrecedes(ret.multi, OldestVisibleMXactId[ret.w])

\* a backend read from the logs a group that is not the latest and that was
\* created from an array in the other order
RoundTripWitness ==
    /\ ResolvedCreated
    /\ ret.kind = "ok"
    /\ ret.multi + 1 < MultiXactState.nextMXact
    /\ created[ret.multi] = UpdaterAndLocker
    /\ ret.members = LockerAndUpdater

-----------------------------------------------------------------------------
(* Resolution of an id that is not minted yet *)

\* C5: a Resolve of an id at or beyond nextMXact fails with the
\* AheadOfAllocator error: it returns no members, reads no offset entry of
\* the id and never waits in the retry loop for it.
AheadOfAllocatorFails ==
    (ret.op = "Resolve" /\ ~MultiXactIdPrecedes(ret.multi, MultiXactState.nextMXact))
        => ret.kind = "AheadOfAllocator"

-----------------------------------------------------------------------------
(* Creation of a member set the cache holds *)

\* the call that completed last is a Create answered from the cache
CreateHitCache == ret.op = "Create" /\ ret.kind = "cached"

\* C10: a Create that finds its sorted member set in the cache returns the
\* cached id and leaves nextMXact, nextOffset, both logs and the record
\* stream as they were.
CachedCreateWritesNothing ==
    [][(ret'.op = "Create" /\ ret'.kind = "cached") =>
           /\ UNCHANGED sharedVars
           /\ ret'.multi \in DOMAIN created
           /\ MemberSet(created[ret'.multi]) = MemberSet(ret'.members)]_vars

\* a Create was answered from the cache for an array in another order than
\* the one the id was created from
CachedCreateWitness ==
    /\ CreateHitCache
    /\ ret.members # created[ret.multi]
    /\ MultiXactState.nextMXact = ret.multi + 1

-----------------------------------------------------------------------------
(* Creation is idempotent within a unit of work *)

\* within the unit of work, Create returned one id per member set to w
OneIdPerSet(w) == \A p, q \in returned[w] : p[1] = q[1] => p[2] = q[2]

-----------------------------------------------------------------------------
(* Allocation of ids and member ranges under concurrency *)

\* in the order the ids were handed out: ids rise, member ranges neither
\* overlap nor leave a gap
AllocationOrdered ==
    /\ \A i, j \in 1..Len(reserved) : i < j =>
           /\ reserved[i].multi < reserved[j].multi
           /\ reserved[i].offset + Len(reserved[i].members) <= reserved[j].offset
    /\ \A i \in 1..(Len(reserved) - 1) :
           reserved[i + 1].offset = reserved[i].offset + Len(reserved[i].members)

\* C2: over every interleaving of the creation steps of the backends, each
\* minted id is greater than all ids minted before it in MultiXactGenLock
\* order, no id is handed out twice, the member ranges of the groups are
\* disjoint and contiguous, and nextMXact and nextOffset never decrease.
StrictlyIncreasingAllocation ==
    [][/\ AllocationOrdered'
       /\ MultiXactState'.nextMXact >= MultiXactState.nextMXact
       /\ MultiXactState'.nextOffset >= MultiXactState.nextOffset]_vars

\* a backend that released MultiXactGenLock at multiVacLimit was overtaken
\* and got another id than the one it had read, while the other backend is
\* still inside its creation
ConcurrentAllocationWitness ==
    \E w, v \in Backends :
        /\ w # v
        /\ pc[w] = "reserved"
        /\ loc[w].seen # loc[w].multi
        /\ pc[v] \in {"reserved", "logged", "offset_written"}
        /\ Len(reserved) > MaxMXact

-----------------------------------------------------------------------------
(* A crash in the middle of concurrent creations *)

\* the members recovery gives for id m match those its creator reserved m for
RecoveredComplete(R, m) ==
    LET r == ReadFromLogs(R, m, R.mx.nextMXact, R.mx.nextOffset)
    IN /\ PageExists(R.off, MultiXactIdToOffsetPage(m))
       /\ OffsetEntry(R.off, m) # 0
       /\ r.kind = "ok"
       /\ \E i \in 1..Len(reserved) :
              /\ reserved[i].multi = m
              /\ MemberSet(r.members) = MemberSet(reserved[i].members)

\* C7: whenever the system crashes and the records written so far are
\* replayed, every id from oldestMultiXactId up to the recovered nextMXact
\* has a written offset entry and its full member array, so that resolving
\* it returns the complete member set and never waits.
NoPartialGroupAfterCrash ==
    LET R == Recovered
    IN \A m \in R.mx.oldestMultiXactId..(R.mx.nextMXact - 1) : RecoveredComplete(R, m)

-----------------------------------------------------------------------------
(* Truncation and the groups at or above the new floor *)

\* what a backend with an empty cache reads for id m from the two logs
FromLogs(m) == ReadFromLogs(Shared, m, MultiXactState.nextMXact, MultiXactState.nextOffset)

\* C3, with creations that complete before a truncation starts: after every
\* truncation, each created id at or above oldestMultiXactId
\* still resolves from the two logs to the member set it was created with:
\* neither its offsets page, nor that of the next id, nor a member segment
\* that holds one of its members is gone.
RetainedGroupsResolve ==
    \A m \in DOMAIN created :
        MultiXactIdPrecedesOrEquals(MultiXactState.oldestMultiXactId, m) =>
            /\ FromLogs(m).kind = "ok"
            /\ MemberSet(FromLogs(m).members) = MemberSet(created[m])

\* backend 2 read from the logs the group at the floor after a truncation
\* that removed the first offsets page and the first member segment
RetainedGroupsWitness ==
    /\ ret.op = "Resolve" /\ ret.w = 2 /\ ret.kind = "ok"
    /\ ret.multi = MultiXactState.oldestMultiXactId
    /\ MemberSet(ret.members) = MemberSet(created[ret.multi])
    /\ ~PageExists(OffsetCtl, 0)
    /\ ~PageExists(MemberCtl, 0)

-----------------------------------------------------------------------------
(* Resolution of an id below the floor *)

\* C4: a Resolve of a valid id that precedes oldestMultiXactId fails with the
\* BeforeRetentionFloor error and returns no members, also when the caller
\* still has the id in its cache.
BeforeRetentionFloorFails ==
    (/\ ret.op = "Resolve"
     /\ MultiXactIdIsValid(ret.multi)
     /\ MultiXactIdPrecedes(ret.multi, MultiXactState.oldestMultiXactId))
        => ret.kind = "BeforeRetentionFloor"

-----------------------------------------------------------------------------
(* Replay of the records of a run *)

\* recovery gives for id m what the live logs give
SameAfterReplay(R, m) ==
    LET r == ReadFromLogs(R, m, R.mx.nextMXact, R.mx.nextOffset)
    IN r.kind = "ok" /\ MemberSet(r.members) = MemberSet(FromLogs(m).members)

\* C6: after every run of Create, Expand and Truncate calls, replaying the
\* records of the run from the bootstrap state gives the nextMXact,
\* nextOffset and oldestMultiXactId of the live run and, for every id that
\* resolves in the live run, the same member set.
ReplayEquivalent ==
    LET R == Recovered
    IN /\ R.mx.nextMXact = MultiXactState.nextMXact
       /\ R.mx.nextOffset = MultiXactState.nextOffset
       /\ R.mx.oldestMultiXactId = MultiXactState.oldestMultiXactId
       /\ \A m \in FirstMultiXactId..(MultiXactState.nextMXact - 1) :
              FromLogs(m).kind = "ok" => SameAfterReplay(R, m)

-----------------------------------------------------------------------------
(* Groups do not change once created *)

\* the offset entry and the member slots of a group that was handed out
StoredGroup(off, mem, r) ==
    [offset |-> OffsetEntry(off, r.multi),
     members |-> [k \in 1..Len(r.members) |-> MemberEntry(mem, r.offset + k - 1)]]

\* C8: no Create or Expand changes the offset entry or a member slot of a
\* group created before, every group resolves from the logs to the same
\* members after the step as before it, and an Expand that adds a member
\* returns an id that is not the one it was given: a new id, or the cached id
\* of another group.
GroupsImmutable ==
    [][/\ \A i \in 1..Len(reserved) :
              StoredGroup(OffsetCtl', MemberCtl', reserved[i])
                  = StoredGroup(OffsetCtl, MemberCtl, reserved[i])
       /\ \A m \in DOMAIN created : FromLogs(m)' = FromLogs(m)
       /\ (ret'.op = "Expand" /\ ret'.kind \in {"minted", "cached"}) =>
              /\ ret'.multi # ret'.arg
              /\ ret'.kind = "minted" => ret'.multi \notin DOMAIN created]_vars

\* an Expand of the first group, one of whose members had ended, returned a
\* new group without that member, and the first group still reads as created
GroupsImmutableWitness ==
    /\ ret.op = "Expand" /\ ret.kind = "minted"
    /\ ret.arg = FirstMultiXactId
    /\ ret.multi # ret.arg
    /\ \E i \in 1..Len(created[ret.arg]) : created[ret.arg][i] \notin MemberSet(ret.members)
    /\ FromLogs(ret.arg).kind = "ok"
    /\ MemberSet(FromLogs(ret.arg).members) = MemberSet(created[ret.arg])

-----------------------------------------------------------------------------
(* Expansion *)

\* the member the explored Expand calls add
NewMember == Member(2, MultiXactStatusForKeyShare)

\* what GetMultiXactIdMembers answers backend w for multi in this state
ResolvedBy(w, multi) ==
    GetMultiXactIdMembers(Shared, MXactCache[w], MXactCacheMembers[w],
                          OldestVisibleMXactId[w], OldestMemberMXactId, multi, FALSE)

IsMember(m, g) ==
    g.kind \in {"cached", "ok"} /\ \E i \in 1..Len(g.members) : g.members[i] = m

\* C11: an Expand whose new member is already in the group its lookup
\* resolves returns the id it was given and leaves nextMXact, nextOffset,
\* both logs and the record stream as they were, whatever has become of the
\* other members.
ExpandOfMemberReturnsSame ==
    [][\A multi \in MultiIds :
          (ret'.op = "Expand" /\ ret'.arg = multi /\ IsMember(NewMember, ResolvedBy(ret'.w, multi))) =>
              /\ ret'.multi = multi
              /\ ret'.kind = "same"
              /\ UNCHANGED sharedVars
              /\ UNCHANGED <<created, reserved>>]_vars

\* an Expand returned the id it was given although another member of that
\* group is no longer in progress
ExpandOfMemberWitness ==
    /\ ret.op = "Expand" /\ ret.kind = "same" /\ ret.multi = ret.arg
    /\ NewMember \in MemberSet(ret.members)
    /\ \E i \in 1..Len(ret.members) :
           ret.members[i] # NewMember /\ ~TransactionIdIsInProgress(ret.members[i].xid)

\* the lookup gives the caller no member
NoMembers(g) == g.kind = "none" \/ (g.kind \in {"cached", "ok"} /\ g.members = <<>>)

Kept(m) ==
    \/ xact[m.xid] = "in_progress"
    \/ (m.status \in {MultiXactStatusNoKeyUpdate, MultiXactStatusUpdate}
            /\ xact[m.xid] = "committed")

\* C13: an Expand of a group that does not hold the new member returns a
\* group, new or from the cache, whose members are the members of the given
\* group that are running or that updated and committed, and the new member:
\* it was created with that set and reads back from the logs as that set.
ExpandKeepsLiveMembers ==
    [][\A multi \in DOMAIN created, m \in MultiIds :
          (/\ ret'.op = "Expand" /\ ret'.arg = multi /\ ret'.multi = m
           /\ ret'.kind \in {"minted", "cached"}
           /\ NewMember \notin MemberSet(created[multi])) =>
              LET expected == {k \in MemberSet(created[multi]) : Kept(k)} \cup {NewMember}
              IN /\ MemberSet(ret'.members) = expected
                 /\ MemberSet(created'[m]) = expected
                 /\ MemberSet(FromLogs(m)'.members) = expected]_vars

\* an Expand of the group of an updater that aborted minted the group of the
\* new member alone
ExpandDropsAbortedWitness ==
    /\ ret.op = "Expand" /\ ret.kind = "minted"
    /\ ret.arg \in DOMAIN created
    /\ created[ret.arg] = OneUpdater
    /\ xact[OneUpdater[1].xid] = "aborted"
    /\ MemberSet(created[ret.multi]) = {NewMember}

-----------------------------------------------------------------------------
(* Updating members *)

Updaters(members) ==
    {i \in 1..Len(members) :
        members[i].status \in {MultiXactStatusNoKeyUpdate, MultiXactStatusUpdate}}

\* C14: every id a Create or Expand has returned reads from the logs as a
\* group with at most one updating member, and every entry of every
\* backend's cache holds at most one.
AtMostOneUpdater ==
    /\ \A m \in DOMAIN created :
           FromLogs(m).kind = "ok" => Cardinality(Updaters(FromLogs(m).members)) <= 1
    /\ \A w \in Backends : \A i \in 1..Len(MXactCache[w]) :
           Cardinality(Updaters(MXactCache[w][i].members)) <= 1

\* an Expand that would have put a second updater into a group failed, and
\* the groups in the logs hold an updater
AtMostOneUpdaterWitness ==
    /\ ret.op = "Expand" /\ ret.kind = "error"
    /\ ret.arg \in DOMAIN created
    /\ Cardinality(Updaters(created[ret.arg])) = 1
    /\ FromLogs(ret.arg).kind = "ok"
    /\ Cardinality(Updaters(FromLogs(ret.arg).members)) = 1

\* C15: a Create of an array with two or more updating members fails and
\* changes nothing: nextMXact, nextOffset and the rest of the shared struct,
\* the pages of both logs, the record stream and the caller's cache are as
\* before.
TwoUpdatersRejected ==
    [][(ret'.op = "Create" /\ Cardinality(Updaters(ret'.members)) >= 2) =>
          /\ ret'.kind = "error"
          /\ UNCHANGED sharedVars
          /\ UNCHANGED cacheVars
          /\ UNCHANGED <<created, reserved>>]_vars

\* a Create of two updaters failed in a backend whose cache holds a group
\* and after ids had been minted
TwoUpdatersRejectedWitness ==
    /\ ret.op = "Create" /\ ret.kind = "error"
    /\ ret.members = TwoUpdaters
    /\ MXactCache[ret.w] # <<>>
    /\ MultiXactState.nextMXact > FirstMultiXactId

-----------------------------------------------------------------------------
(* Whether a group is running *)

\* what MultiXactIdIsRunning answers backend w for multi in this state
Answer(w, multi, isLockOnly) ==
    MultiXactIdIsRunning(Shared, MXactCache[w], MXactCacheMembers[w],
                         OldestVisibleMXactId[w], OldestMemberMXactId,
                         w, multi, isLockOnly).kind

\* the calls a backend can make for a group
Asks(multi) ==
    {c \in Backends \X BOOLEAN : c[2] => LockOnly(multi)}

NowhereRunning(multi) ==
    \A c \in Asks(multi) : Answer(c[1], multi, c[2]) = "false"

\* C16: once a call of MultiXactIdIsRunning has answered false for a group,
\* in every later state every call a backend can make for that group, by
\* any backend and with either flag, answers false.
NotRunningIsStable ==
    \A multi \in notRunning : NowhereRunning(multi)

\* a backend was told that a group is not running after a call had said it
\* was, and new groups were minted since
NotRunningWitness ==
    /\ ret.op = "IsRunning" /\ ret.kind = "false"
    /\ ret.members # <<>>
    /\ ret.multi < MultiXactState.nextMXact - 1
    /\ \E w \in Backends : xact[w] = "in_progress"

-----------------------------------------------------------------------------
(* The offset entry 0 *)

\* backend w holds an id it has reserved and whose offset entry it has not
\* written yet
WritePending(w, multi) ==
    /\ pc[w] \in {"reserved", "logged"}
    /\ loc[w].multi = multi

-----------------------------------------------------------------------------
(* Creation at or past multiVacLimit *)

\* backend w found its candidate id at or past multiVacLimit and released
\* MultiXactGenLock
AtVacLimit(w) == pc[w] = "relock"

\* C18: a creation whose candidate id is at or past multiVacLimit is not
\* refused: when it has the lock again it takes the id nextMXact then holds,
\* which is its candidate unless another backend took that one meanwhile,
\* and under fair scheduling it returns that id to its caller.
VacLimitIsAdvisory ==
    /\ [][\A w \in Backends :
            /\ (AtVacLimit(w) /\ ~AtVacLimit(w)') =>
                   /\ pc'[w] = "reserved"
                   /\ loc'[w].multi = MultiXactState.nextMXact
                   /\ loc'[w].multi >= loc[w].seen
                   /\ ~MultiXactIdPrecedes(loc'[w].multi, MultiXactState.multiVacLimit)
            /\ (pc[w] = "offset_written" /\ pc'[w] = "idle") =>
                   ret' = [op |-> "Create", w |-> w, multi |-> loc[w].multi, kind |-> "minted",
                           members |-> loc[w].given, onlyLock |-> FALSE,
                           arg |-> InvalidMultiXactId]]_vars
    /\ \A w \in Backends, m \in MultiIds :
           (pc[w] = "reserved" /\ loc[w].multi = m /\ m >= MultiXactState.multiVacLimit)
               ~> (pc[w] = "idle" /\ m \in DOMAIN created)
    /\ \A w \in Backends : AtVacLimit(w) ~> pc[w] = "reserved"

\* a creation returned an id past multiVacLimit, the id before it being one
\* the other backend took
VacLimitWitness ==
    /\ ret.op = "Create" /\ ret.kind = "minted"
    /\ MultiXactIdPrecedes(MultiXactState.multiVacLimit, ret.multi)
    /\ \E i \in 1..Len(reserved) :
           reserved[i].multi = ret.multi - 1 /\ reserved[i].w # ret.w

-----------------------------------------------------------------------------
(* The counters during replay *)

\* C19: the replay of a record never lowers nextMXact or nextOffset, and
\* after it nextMXact is past the id, and nextOffset past the member range,
\* of every create record replayed so far, in whatever order they came.
ReplayNeverRegresses ==
    [][ret'.op = "Redo" =>
          /\ MultiXactState'.nextMXact >= MultiXactState.nextMXact
          /\ MultiXactState'.nextOffset >= MultiXactState.nextOffset
          /\ \A i \in 1..Len(wal') :
                 wal'[i].info = "CREATE_ID" =>
                     /\ MultiXactState'.nextMXact >= wal'[i].mid + 1
                     /\ MultiXactState'.nextOffset >= wal'[i].moff + wal'[i].nmembers]_vars

\* the record replayed last has an id and a member range below what the
\* counters had reached
ReplayOutOfOrderWitness ==
    /\ ret.op = "Redo" /\ ret.kind = "CREATE_ID"
    /\ wal[Len(wal)].mid + 1 < MultiXactState.nextMXact
    /\ wal[Len(wal)].moff + wal[Len(wal)].nmembers < MultiXactState.nextOffset

-----------------------------------------------------------------------------
(* A lookup racing with the creation of the next id *)

\* the id after multi is reserved and its offset entry is not written
NextIdUnwritten(multi) ==
    /\ multi + 1 < MultiXactState.nextMXact
    /\ OffsetEntry(OffsetCtl, multi + 1) = 0

\* C20: a lookup of id m that saved its counters after id m + 1 was
\* reserved does not leave the offsets step while the entry of m + 1 reads
\* 0: a step it takes then is a round of the retry loop; when it leaves the
\* step its member count
\* is that of the array m was created with; and the members it returns are
\* exactly the members m was created with.
LookupWaitsForNextId ==
    [][\A w \in Backends :
          /\ (pc[w] = "resolve_offsets" /\ loc[w].nextMXact # loc[w].multi + 1
                   /\ NextIdUnwritten(loc[w].multi)
                   /\ <<pc[w], loc[w]>>' # <<pc[w], loc[w]>>) =>
                 /\ pc'[w] = "resolve_offsets"
                 /\ loc'[w].retried
          /\ (pc[w] = "resolve_offsets" /\ pc'[w] = "resolve_members") =>
                 loc'[w].length = Len(created[loc[w].multi])
          /\ (pc[w] \in {"resolve_offsets", "resolve_members"} /\ pc'[w] = "idle") =>
                 /\ ret'.kind = "ok"
                 /\ ret'.multi = loc[w].multi
                 /\ Len(ret'.members) = Len(created[ret'.multi])
                 /\ MemberSet(ret'.members) = MemberSet(created[ret'.multi])]_vars

\* a lookup that went round the retry loop returned the members of its id
\* after the next id, created with other members, was written
LookupAfterRetryWitness ==
    /\ ret.op = "Resolve" /\ ret.kind = "ok"
    /\ "retried" \in DOMAIN ret
    /\ ret.retried
    /\ ret.multi + 1 \in DOMAIN created
    /\ created[ret.multi + 1] # created[ret.multi]
    /\ MemberSet(ret.members) = MemberSet(created[ret.multi])

-----------------------------------------------------------------------------
(* The end of a lookup *)

\* backend w is inside a lookup that missed its cache
InLookup(w) == pc[w] \in {"resolve_offsets", "resolve_members"}

\* C21: when every backend inside a creation or a lookup is scheduled again,
\* each lookup of an id that a creation has returned comes to its end: the
\* retry loop it goes round while the offset entry of the next id reads 0 is
\* left, because the backend that reserved that id writes the entry.
LookupTerminates ==
    \A w \in Backends : InLookup(w) ~> (pc[w] = "idle" /\ ret.op = "Resolve" /\ ret.w = w)

\* a lookup that went round the retry loop has returned while the creator of
\* the next id, its offset entry written, has its members still to write
LookupLeftRetryWitness ==
    /\ ret.op = "Resolve" /\ ret.kind = "ok"
    /\ "retried" \in DOMAIN ret
    /\ ret.retried
    /\ pc[ret.w] = "idle"
    /\ \E v \in Backends : pc[v] = "offset_written" /\ loc[v].multi = ret.multi + 1

-----------------------------------------------------------------------------
(* The order of the steps of a truncation *)

\* the truncate record of the truncation backend w is running is in the log
TruncRecordLogged(w) ==
    \E i \in 1..Len(wal) :
        /\ wal[i].info = "TRUNCATE_ID"
        /\ wal[i].startTruncOff = loc[w].oldestMulti
        /\ wal[i].endTruncOff = loc[w].newOldestMulti
        /\ wal[i].startTruncMemb = loc[w].oldestOffset
        /\ wal[i].endTruncMemb = loc[w].newOldestOffset

\* the limits in shared memory are those of the truncation backend w is running
TruncLimitsSet(w) ==
    /\ MultiXactState.oldestMultiXactId = loc[w].newOldestMulti
    /\ MultiXactState.oldestMultiXactDB = loc[w].newOldestMultiDB

\* C22: a truncation emits its record first, then sets oldestMultiXactId and
\* oldestMultiXactDB, then deletes member segments and after them offsets
\* pages: the limits change only when the record is in the log; a page of
\* either log disappears only while a truncation is running whose record is
\* in the log and whose floor is oldestMultiXactId; an offsets page
\* disappears only after the member segments were dealt with; and in every
\* state after the member step the floor is set and the record is logged.
TruncationOrder ==
    /\ [](\A w \in Backends :
              pc[w] \in {"trunc_members", "trunc_offsets"} =>
                  TruncRecordLogged(w) /\ TruncLimitsSet(w))
    /\ [][/\ MultiXactState'.oldestMultiXactId # MultiXactState.oldestMultiXactId =>
                 \E w \in Backends : pc[w] = "trunc_limits" /\ TruncRecordLogged(w)
          /\ DOMAIN MemberCtl.pages \ DOMAIN MemberCtl'.pages # {} =>
                 \E w \in Backends :
                     /\ pc[w] = "trunc_members"
                     /\ TruncRecordLogged(w) /\ TruncLimitsSet(w)
                     /\ DOMAIN OffsetCtl'.pages = DOMAIN OffsetCtl.pages
          /\ DOMAIN OffsetCtl.pages \ DOMAIN OffsetCtl'.pages # {} =>
                 \E w \in Backends :
                     /\ pc[w] = "trunc_offsets"
                     /\ TruncRecordLogged(w) /\ TruncLimitsSet(w)]_vars

\* a truncation has deleted the first member segment and has the first
\* offsets page still to delete
TruncationOrderWitness ==
    \E w \in Backends :
        /\ pc[w] = "trunc_offsets"
        /\ ~PageExists(MemberCtl, 0)
        /\ PageExists(OffsetCtl, 0)
        /\ MultiXactIdToOffsetPage(PreviousMultiXactId(loc[w].newOldestMulti)) > 0

-----------------------------------------------------------------------------
(* A truncation that cannot resolve a starting offset *)

\* TruncateMultiXact would look up the starting offset of id multi and its
\* offsets page is not on disk
CannotResolve(multi) ==
    /\ multi # MultiXactState.nextMXact
    /\ ~PageExists(OffsetCtl, MultiXactIdToOffsetPage(multi))

\* C23: a truncation whose oldestMultiXactId or whose new floor has no
\* offsets page on disk returns without an error and changes nothing: the
\* limits, both logs and the record stream stay as they were and the
\* truncation lock is free again; a truncation that enters its critical
\* section has resolved both offsets.
UnresolvedTruncationSkipped ==
    [][\A w \in Backends :
          pc[w] = "idle" =>
              /\ pc'[w] = "trunc_log" =>
                     /\ ~CannotResolve(MultiXactState.oldestMultiXactId)
                     /\ ~CannotResolve(loc'[w].newOldestMulti)
              /\ (/\ ret' # ret /\ ret'.op = "Truncate" /\ ret'.w = w
                  /\ \/ CannotResolve(MultiXactState.oldestMultiXactId)
                     \/ CannotResolve(ret'.multi)) =>
                     /\ ret'.kind \in {"nothing_to_truncate", "already_removed",
                                       "oldest_not_found", "new_not_found"}
                     /\ UNCHANGED sharedVars
                     /\ pc'[w] = "idle"
                     /\ held'[w] = {}]_vars

\* a truncation to a floor past nextMXact whose page is not on disk was
\* skipped while groups that it would have removed are stored
UnresolvedTruncationWitness ==
    /\ ret.op = "Truncate" /\ ret.kind = "new_not_found"
    /\ MultiXactIdPrecedes(MultiXactState.oldestMultiXactId, MultiXactState.nextMXact)
    /\ ~PageExists(OffsetCtl, MultiXactIdToOffsetPage(ret.multi))
    /\ PageExists(MemberCtl, 0)
    /\ \A w \in Backends : held[w] = {}

-----------------------------------------------------------------------------
(* A truncation repeated after it was interrupted *)

\* the first id of the earliest offsets page on disk, as TruncateMultiXact
\* computes it
EarliestOnDisk == TruncationRange(Shared, FirstMultiXactId).earliest

\* C24: when oldestMultiXactId precedes the first id of the earliest offsets
\* page on disk, a truncation to a floor that follows oldestMultiXactId and
\* is at most nextMXact deletes no page that precedes that page, fails with
\* no error, and brings oldestMultiXactId to its floor.
RepeatedTruncationReachesFloor ==
    [][(/\ ret'.op = "Truncate" /\ ret' # ret
        /\ MultiXactIdPrecedes(MultiXactState.oldestMultiXactId, EarliestOnDisk)
        /\ MultiXactIdPrecedes(MultiXactState.oldestMultiXactId, ret'.multi)) =>
           /\ ret'.kind # "error"
           /\ \A p \in DOMAIN OffsetCtl.pages \ DOMAIN OffsetCtl'.pages :
                  p * MULTIXACT_OFFSETS_PER_PAGE >= EarliestOnDisk
           /\ MultiXactState'.oldestMultiXactId = ret'.multi]_vars

\* the truncation that was interrupted is repeated with the same floor and
\* returns at "already removed": oldestMultiXactId stays behind the floor
\* and behind the earliest page on disk
RepeatedTruncationStuck ==
    /\ ret.op = "Truncate" /\ ret.kind = "already_removed"
    /\ wal # <<>>
    /\ wal[Len(wal)].info = "TRUNCATE_ID"
    /\ wal[Len(wal)].endTruncOff = ret.multi
    /\ MultiXactIdPrecedes(MultiXactState.oldestMultiXactId, EarliestOnDisk)
    /\ MultiXactIdPrecedes(MultiXactState.oldestMultiXactId, ret.multi)

-----------------------------------------------------------------------------
(* The floor only grows *)

\* C25: oldestMultiXactId never decreases, whatever floors TruncateMultiXact
\* and MultiXactAdvanceOldest are called with; and a truncation to a floor
\* that precedes or equals oldestMultiXactId does nothing: no record, no
\* deletion, the limits unchanged.
FloorOnlyGrows ==
    [][/\ MultiXactIdPrecedesOrEquals(MultiXactState.oldestMultiXactId,
                                      MultiXactState'.oldestMultiXactId)
       /\ (/\ ret'.op = "Truncate" /\ ret' # ret
           /\ MultiXactIdPrecedesOrEquals(ret'.multi, MultiXactState.oldestMultiXactId)) =>
              /\ ret'.kind = "nothing_to_truncate"
              /\ UNCHANGED sharedVars]_vars

\* after the floor was raised, by a truncation that left its record, a
\* truncation to an older floor was asked for and did nothing
FloorOnlyGrowsWitness ==
    /\ ret.op = "Truncate" /\ ret.kind = "nothing_to_truncate"
    /\ MultiXactIdPrecedes(ret.multi, MultiXactState.oldestMultiXactId)
    /\ \E i \in 1..Len(wal) : wal[i].info = "TRUNCATE_ID"
    /\ ~PageExists(MemberCtl, 0)

-----------------------------------------------------------------------------
(* What a truncation removes *)

\* the member offset at which group m starts: the offset it was reserved
\* with, or nextOffset for the id that is not reserved yet
StartingOffset(m) ==
    IF m = MultiXactState.nextMXact THEN MultiXactState.nextOffset
    ELSE LET i == CHOOSE j \in 1..Len(reserved) : reserved[j].multi = m
         IN reserved[i].offset

\* the pages of ctl that the step removes
RemovedPages(ctl, newctl) == DOMAIN ctl.pages \ DOMAIN newctl.pages

\* C26: the member step of a truncation from floor old to floor new, old <
\* new <= nextMXact, removes exactly the pages of the member segments from
\* that of the starting offset of old up to, not including, that of the
\* starting offset of new: at most segment(new) - segment(old) segments, and
\* never the segment of the starting offset of new.  The offsets step
\* removes only segments whose pages all precede the page of new - 1.
TruncationRemovesExactly ==
    [][\A w \in Backends :
          /\ (pc[w] = "trunc_members" /\ pc'[w] = "trunc_offsets") =>
                 LET first == MXOffsetToMemberSegment(StartingOffset(loc[w].oldestMulti))
                     last == MXOffsetToMemberSegment(StartingOffset(loc[w].newOldestMulti))
                     gone == RemovedPages(MemberCtl, MemberCtl')
                 IN /\ gone = {p \in DOMAIN MemberCtl.pages :
                                   first <= SegmentOfPage(p) /\ SegmentOfPage(p) < last}
                    /\ Cardinality({SegmentOfPage(p) : p \in gone}) <= last - first
                    /\ \A p \in gone : SegmentOfPage(p) # last
          /\ (pc[w] = "trunc_offsets" /\ pc'[w] = "idle") =>
                 LET cutoff == MultiXactIdToOffsetPage(PreviousMultiXactId(loc[w].newOldestMulti))
                 IN \A p \in RemovedPages(OffsetCtl, OffsetCtl') :
                        (SegmentOfPage(p) + 1) * SLRU_PAGES_PER_SEGMENT - 1 < cutoff]_vars

\* a truncation removed member segments 0 and 1 and kept segment 2, and
\* removed offsets page 0
TruncationRemovesWitness ==
    /\ ret.op = "Truncate" /\ ret.kind = "truncated"
    /\ ~PageExists(MemberCtl, 0) /\ ~PageExists(MemberCtl, 1)
    /\ PageExists(MemberCtl, 2)
    /\ ~PageExists(OffsetCtl, 0) /\ PageExists(OffsetCtl, 1)

\* Where a truncation racing with a creation ends: a backend has reserved an id and member
\* space, has not written them yet, and a completed truncation has removed
\* the member page of the offset it reserved.
ReservedSpaceRemoved ==
    /\ ret.op = "Truncate" /\ ret.kind = "truncated"
    /\ \E w \in Backends :
          /\ pc[w] \in {"reserved", "logged", "offset_written"}
          /\ ~PageExists(MemberCtl, MXOffsetToMemberPage(loc[w].offset))

-----------------------------------------------------------------------------
(* One truncation at a time *)

InTruncation(w) == pc[w] \in {"trunc_log", "trunc_limits", "trunc_members", "trunc_offsets"}

HoldsTruncationLock(w) == "MultiXactTruncationLock" \in HeldBy(w)

\* C27: no two backends are between the acquisition and the release of
\* MultiXactTruncationLock at once, so the deletions of two truncations
\* never interleave; a backend holds the lock exactly while it is inside
\* TruncateMultiXact, every return of TruncateMultiXact (the early returns
\* and the normal end) leaves the lock released, and a lock that is held is
\* released in the end, so a later truncation gets it.
TruncationsExclusive ==
    /\ [](\A v, w \in Backends :
              (HoldsTruncationLock(v) /\ HoldsTruncationLock(w)) => v = w)
    /\ [](\A w \in Backends : HoldsTruncationLock(w) <=> InTruncation(w))
    /\ [][\A w \in Backends :
              (ret' # ret /\ ret'.op = "Truncate" /\ ret'.w = w) =>
                  ~HoldsTruncationLock(w)']_vars
    /\ \A w \in Backends : HoldsTruncationLock(w) ~> ~HoldsTruncationLock(w)

\* one backend is in the middle of a truncation, after its member segments
\* went, and the other has come back from a truncation by an early return
TruncationsExclusiveWitness ==
    \E v, w \in Backends :
        /\ v # w
        /\ pc[v] = "trunc_offsets" /\ HoldsTruncationLock(v)
        /\ ret.op = "Truncate" /\ ret.w = w /\ ret.kind # "truncated"
        /\ ~HoldsTruncationLock(w)

-----------------------------------------------------------------------------
(* The locks a creating backend holds *)

ControlLocks == {"MultiXactOffsetControlLock", "MultiXactMemberControlLock"}

\* a backend zeroes a new page for GetNewMultiXactId
Extending(w) == pc[w] \in {"zero_offset", "zero_member"}

-----------------------------------------------------------------------------
(* Pages are extended before the counters move *)

\* the member pages the entries of a group occupy
MemberPagesOf(offset, nmembers) ==
    {MXOffsetToMemberPage(o) : o \in offset..(offset + nmembers - 1)}

\* a zero-page record of the given kind for the page, before position i of
\* the record stream
ZeroedBefore(log, i, info, pageno) ==
    \E j \in 1..(i - 1) :
        log[j].info = info /\ log[j].data = FirstWordInMemory(PageAsInt64(pageno))

\* the pages of the group exist, and each page that an extension added has
\* its zero-page record before position i (member page 0 is the one page
\* that BootStrapMultiXact leaves behind without a record)
PagesExtended(off, mem, log, i, multi, offset, nmembers) ==
    /\ PageExists(off, MultiXactIdToOffsetPage(multi))
    /\ ZeroedBefore(log, i, "ZERO_OFF_PAGE", MultiXactIdToOffsetPage(multi))
    /\ \A p \in MemberPagesOf(offset, nmembers) :
          /\ PageExists(mem, p)
          /\ p \in DOMAIN BootState.mem.pages \/ ZeroedBefore(log, i, "ZERO_MEM_PAGE", p)

-----------------------------------------------------------------------------
(* A lookup that stops at the caller's oldest visible id *)

\* the call of GetMultiXactIdMembers that has just returned was made with
\* onlyLock and came back with no members because the id precedes the
\* caller's OldestVisibleMXactId
ShortCircuited(w, multi) ==
    /\ ret.op = "Resolve" /\ ret.w = w /\ ret.multi = multi
    /\ ret.onlyLock /\ ret.kind = "none"
    /\ MultiXactIdPrecedes(multi, OldestVisibleMXactId[w])

\* C30: when GetMultiXactIdMembers called with onlyLock returns no members
\* because the id precedes the caller's OldestVisibleMXactId, no member of
\* the group is in progress any more (every backend having called
\* MultiXactIdSetOldestMember before its transaction became a member); the
\* call has read no log and changed neither of them, and has put nothing
\* into the cache.
ShortCircuitSound ==
    [][\A w \in Backends, multi \in MultiIds :
          (ret' # ret /\ ShortCircuited(w, multi)' /\ multi \in DOMAIN created) =>
              /\ \A i \in 1..Len(created[multi]) :
                     ~TransactionIdIsInProgress(created[multi][i].xid)'
              /\ UNCHANGED <<sharedVars, cacheVars, held>>
              /\ CacheFindById(MXactCache'[w], multi) = 0]_vars

\* a backend whose transaction has committed is told that a group has no
\* members: they have all committed, while the other backend is still
\* inside its transaction, with its slot set
ShortCircuitWitness ==
    \E w \in Backends, multi \in DOMAIN created :
        /\ ShortCircuited(w, multi)
        /\ \A i \in 1..Len(created[multi]) : TransactionIdDidCommit(created[multi][i].xid)
        /\ \E v \in Backends \ {w} :
              /\ TransactionIdIsInProgress(v)
              /\ MultiXactIdIsValid(OldestMemberMXactId[v])

-----------------------------------------------------------------------------
(* Retained groups when a truncation meets a creation in progress *)

\* the groups backend w has created
CreatedBy(w) ==
    {m \in DOMAIN created : \E i \in 1..Len(reserved) : reserved[i].multi = m /\ reserved[i].w = w}

\* the offsets page of the group and the member pages of its entries exist
GroupPagesExist(m) ==
    /\ PageExists(OffsetCtl, MultiXactIdToOffsetPage(m))
    /\ \A o \in StartingOffset(m)..(StartingOffset(m) + Len(created[m]) - 1) :
          PageExists(MemberCtl, MXOffsetToMemberPage(o))

\* C3, with a creation in progress during the truncation: when a backend
\* returns from a truncation, every group it had created before, at or above
\* the new oldestMultiXactId, still has its offsets page and the member
\* pages of its entries.
RetainedAcrossRace ==
    (ret.op = "Truncate" /\ ret.kind = "truncated") =>
        \A m \in CreatedBy(ret.w) :
            MultiXactIdPrecedesOrEquals(MultiXactState.oldestMultiXactId, m) =>
                GroupPagesExist(m)

\* backend 2 has returned from a truncation to the id backend 1 has
\* reserved and not written, and a group backend 2 created after that id has
\* lost its pages
RetainedGroupLost ==
    /\ ret.op = "Truncate" /\ ret.kind = "truncated" /\ ret.w = 2
    /\ pc[1] = "reserved" /\ loc[1].multi = MultiXactState.oldestMultiXactId
    /\ \E m \in CreatedBy(2) :
          /\ MultiXactIdPrecedes(MultiXactState.oldestMultiXactId, m)
          /\ ~GroupPagesExist(m)

-----------------------------------------------------------------------------
(* The slots of the backends *)

\* the backends computing their OldestVisibleMXactId under MultiXactGenLock
Scanning(w) == pc[w] = "visible_slot"

\* C31: the value a backend stores in its OldestVisibleMXactId slot is the
\* oldest of nextMXact and the valid OldestMemberMXactId[] entries at the
\* moment it computes it under MultiXactGenLock, and until it is stored
\* nextMXact does not move and no OldestMemberMXactId slot is set; the value
\* a backend stores in its OldestMemberMXactId slot is nextMXact at that
\* moment; and no OldestMemberMXactId slot stored later is older than an
\* OldestVisibleMXactId slot that is set, however the calls of the two
\* functions, the creations and the ends of transactions interleave.
SlotProtocol ==
    [][\A w \in Backends :
          /\ ~Scanning(w) /\ Scanning(w)' =>
                 loc'[w].oldestMXact = OldestVisibleValue(MultiXactState, OldestMemberMXactId)
          /\ Scanning(w) /\ Scanning(w)' =>
                 /\ MultiXactState'.nextMXact = MultiXactState.nextMXact
                 /\ \A v \in Backends : MultiXactIdIsValid(OldestMemberMXactId'[v]) =>
                        OldestMemberMXactId'[v] = OldestMemberMXactId[v]
          /\ OldestVisibleMXactId'[w] # OldestVisibleMXactId[w]
                 /\ MultiXactIdIsValid(OldestVisibleMXactId'[w]) =>
                 /\ Scanning(w)
                 /\ OldestVisibleMXactId'[w] = loc[w].oldestMXact
                 /\ MultiXactIdPrecedesOrEquals(OldestVisibleMXactId'[w],
                        OldestVisibleValue(MultiXactState, OldestMemberMXactId))
          /\ OldestMemberMXactId'[w] # OldestMemberMXactId[w]
                 /\ MultiXactIdIsValid(OldestMemberMXactId'[w]) =>
                 /\ OldestMemberMXactId'[w] = MultiXactState.nextMXact
                 /\ \A v \in Backends :
                        MultiXactIdIsValid(OldestVisibleMXactId[v]) =>
                            MultiXactIdPrecedesOrEquals(OldestVisibleMXactId[v],
                                                        OldestMemberMXactId'[w])]_vars

\* backend 1 holds a slot value older than nextMXact, taken from the slot
\* backend 2 had then, and backend 2, in a later transaction, has stored a
\* newer OldestMemberMXactId
SlotProtocolWitness ==
    /\ MultiXactIdIsValid(OldestVisibleMXactId[1])
    /\ MultiXactIdPrecedes(OldestVisibleMXactId[1], MultiXactState.nextMXact)
    /\ ret.op = "SetOldestMember" /\ ret.w = 2 /\ ret.kind = "set"
    /\ MultiXactIdPrecedes(OldestVisibleMXactId[1], OldestMemberMXactId[2])

-----------------------------------------------------------------------------
(* The end of a transaction *)

\* the ids of the entries of a cache
CachedIds(cache) == {cache[i].multi : i \in 1..Len(cache)}

\* C32: AtEOXact_MultiXact of a backend sets its OldestMemberMXactId and
\* OldestVisibleMXactId slots invalid and empties its cache, with
\* MXactCacheMembers 0; the slots and caches of the other backends, the
\* counters and both logs stay as they were.  So a lookup answered from the
\* cache finds an entry put there since the backend's last end of
\* transaction: the cache changes only in calls of its backend, and the
\* first lookup after the end of a transaction is never answered from it.
EndOfXactDiscards ==
    [][\A w \in Backends :
          /\ ret'.op = "AtEOXact" /\ ret'.w = w =>
                 /\ OldestMemberMXactId' = [OldestMemberMXactId EXCEPT ![w] = InvalidMultiXactId]
                 /\ OldestVisibleMXactId' = [OldestVisibleMXactId EXCEPT ![w] = InvalidMultiXactId]
                 /\ MXactCache' = [MXactCache EXCEPT ![w] = <<>>]
                 /\ MXactCacheMembers' = [MXactCacheMembers EXCEPT ![w] = 0]
                 /\ UNCHANGED <<sharedVars, held, created, reserved>>
          /\ MXactCache'[w] # MXactCache[w] => ret'.w = w
          /\ ret'.w = w /\ ret'.kind = "cached" =>
                 /\ ret'.multi \in CachedIds(MXactCache[w])
                 /\ ~(ret.op = "AtEOXact" /\ ret.w = w)]_vars

\* backend 1 created a group, ended its transaction with the entry still in
\* its cache while backend 2 had its slot set and an entry cached, and has
\* now read the group from the logs
EndOfXactWitness ==
    /\ ret.op = "Resolve" /\ ret.w = 1 /\ ret.kind = "ok"
    /\ ret.multi \in CreatedBy(1)
    /\ ~evicted[1]
    /\ MXactCache[2] # <<>>
    /\ MultiXactIdIsValid(OldestMemberMXactId[2])

-----------------------------------------------------------------------------
(* The size of the cache *)

\* the entries of cache that newcache has no more
Pruned(cache, newcache) ==
    {i \in 1..Len(cache) : \A j \in 1..Len(newcache) : newcache[j] # cache[i]}

\* the entries of newcache that cache had not
Pushed(cache, newcache) ==
    {j \in 1..Len(newcache) : \A i \in 1..Len(cache) : newcache[j] # cache[i]}

\* C33: the cache of a backend never holds more than MAX_CACHE_ENTRIES
\* entries and MXactCacheMembers is their number; a call that inserts an
\* entry inserts one, and removes at most one entry, and only from a cache
\* that was full.
CacheBounded ==
    /\ [](\A w \in Backends :
             /\ Len(MXactCache[w]) <= MAX_CACHE_ENTRIES
             /\ MXactCacheMembers[w] = Len(MXactCache[w]))
    /\ [][\A w \in Backends :
             ret'.op \in {"Create", "Resolve"} =>
                 LET pruned == Pruned(MXactCache[w], MXactCache'[w])
                     pushed == Pushed(MXactCache[w], MXactCache'[w])
                 IN /\ Cardinality(pushed) <= 1
                    /\ Cardinality(pruned) <= 1
                    /\ pruned # {} =>
                           /\ pushed # {}
                           /\ Len(MXactCache[w]) = MAX_CACHE_ENTRIES
                    /\ Len(MXactCache'[w]) =
                           Len(MXactCache[w]) + Cardinality(pushed) - Cardinality(pruned)]_vars

\* a group just created has taken the place of another entry in a full cache
CacheBoundedWitness ==
    /\ ret.op = "Create" /\ ret.kind = "minted"
    /\ evicted[ret.w]
    /\ Len(MXactCache[ret.w]) = MAX_CACHE_ENTRIES
    /\ MXactCache[ret.w][1].multi = ret.multi
    /\ Cardinality(DOMAIN created) > MAX_CACHE_ENTRIES

-----------------------------------------------------------------------------
(* The order of the cache *)

\* the list without its i-th entry
Without(cache, i) == SubSeq(cache, 1, i - 1) \o SubSeq(cache, i + 1, Len(cache))

\* the place of the entry of an id in the list
PlaceOf(cache, multi) == CHOOSE i \in 1..Len(cache) : cache[i].multi = multi

\* C34: the list of the cache is in the order of last use, most recent
\* first: a Create answered by the member set and a lookup answered by the
\* id move the entry found to the head and leave the others in their order;
\* an insertion puts the new entry at the head in front of the others in
\* their order; the entry an insertion removes is the last of the list, the
\* one used longest ago, and never the entry just inserted.
CacheLRU ==
    [][\A w \in Backends :
          LET old == MXactCache[w]
              new == MXactCache'[w]
          IN /\ ret'.w = w /\ ret'.op \in {"Create", "Resolve"} /\ ret'.kind = "cached" =>
                    /\ ret'.multi \in CachedIds(old)
                    /\ new # <<>> /\ new[1].multi = ret'.multi
                    /\ Tail(new) = Without(old, PlaceOf(old, ret'.multi))
             /\ ret'.w = w /\ Pushed(old, new) # {} =>
                    /\ new[1].multi = ret'.multi
                    /\ new[1].members = SortMembers(ret'.members)
                    /\ Tail(new) = IF Len(old) < MAX_CACHE_ENTRIES THEN old
                                   ELSE SubSeq(old, 1, Len(old) - 1)]_vars

\* the group created before last was looked up after the last one was
\* created, and a new group has taken the place of the last one
CacheLRUWitness ==
    /\ ret.op = "Create" /\ ret.kind = "minted" /\ ret.w = 1
    /\ Len(MXactCache[1]) = MAX_CACHE_ENTRIES
    /\ MXactCache[1][1].multi = ret.multi
    /\ \E b \in DOMAIN created :
           /\ b # ret.multi
           /\ b \notin CachedIds(MXactCache[1])
           /\ \A i \in 2..Len(MXactCache[1]) : MXactCache[1][i].multi < b

-----------------------------------------------------------------------------
(* The request for the autovacuum launcher *)

\* backend w is in a creation that has sent PMSIGNAL_START_AUTOVAC_LAUNCHER
Requested(w) == pc[w] # "idle" /\ loc[w].op = "Create" /\ loc[w].signal

\* backend w is in a creation that has advanced the counters
Minted(w) ==
    pc[w] \in {"reserved", "logged", "offset_locked", "offset_written", "member_locked"}

\* every request was sent for an id read at or past multiVacLimit that the
\* test found due
AutovacRequestAtLimit ==
    \A w \in Backends :
        Requested(w) =>
            /\ ~MultiXactIdPrecedes(loc[w].seen, MultiXactState.multiVacLimit)
            /\ AutovacRequestDue(loc[w].seen)

\* C35: with creations running concurrently at or past multiVacLimit, the
\* request for the autovacuum launcher is sent at most once for an id that
\* is due, the creation that sent it is the one that mints that id, and no
\* request is sent for an id before multiVacLimit.
AutovacRequestOncePerInterval ==
    /\ \A w, v \in Backends :
           w # v /\ Requested(w) /\ Requested(v) => loc[w].seen # loc[v].seen
    /\ \A w \in Backends :
           Requested(w) /\ Minted(w) => AutovacRequestDue(loc[w].multi)
    /\ AutovacRequestAtLimit

\* both backends sent the request for the same id; one of them minted it,
\* the other the id after it
AutovacRequestedTwice ==
    \E w, v \in Backends :
        /\ w # v
        /\ Requested(w) /\ Requested(v)
        /\ loc[w].seen = loc[v].seen
        /\ Minted(w) /\ Minted(v)
        /\ loc[w].multi = loc[w].seen
        /\ loc[v].multi = loc[v].seen + 1

-----------------------------------------------------------------------------
(* The OldestMemberMXactId of a prepared transaction *)

\* backend w is between the LWLockAcquire and the LWLockRelease of
\* PostPrepare_MultiXact
InTransfer(w) == pc[w] \in {"prepare_locked", "prepare_stored"}

\* backend w is reading the slots in GetOldestMultiXactId or
\* MultiXactIdSetOldestVisible
Observing(w) == pc[w] \in {"oldest_scan", "visible_slot"}

\* C36: PostPrepare_MultiXact moves the backend's valid OldestMemberMXactId
\* to the slot of the prepared transaction under MultiXactGenLock held
\* exclusively: while it moves, the value is in the backend's slot or in the
\* prepared transaction's, no GetOldestMultiXactId or
\* MultiXactIdSetOldestVisible reads the slots, and what they compute is
\* never after the value; the backend's slot loses a valid value only at the
\* end of its transaction or with the value in the prepared transaction's
\* slot; and that slot keeps the value until multixact_twophase_postcommit
\* or multixact_twophase_postabort clears it.
PrepareTransfersSlot ==
    /\ [](\A w \in Backends :
             InTransfer(w) =>
                 /\ loc[w].myOldestMember \in {OldestMemberMXactId[w],
                                               OldestMemberMXactId[loc[w].dummyBackendId]}
                 /\ \A v \in Backends : ~Observing(v))
    /\ [][\A w \in Backends :
             /\ ~Observing(w) /\ Observing(w)' =>
                    \A i \in OldestSlots :
                        MultiXactIdIsValid(OldestMemberMXactId[i]) =>
                            MultiXactIdPrecedesOrEquals(loc'[w].oldestMXact,
                                                        OldestMemberMXactId[i])
             /\ MultiXactIdIsValid(OldestMemberMXactId[w])
                    /\ ~MultiXactIdIsValid(OldestMemberMXactId'[w]) =>
                    \/ ret'.op = "AtEOXact" /\ ret'.w = w
                    \/ /\ InTransfer(w)
                       /\ OldestMemberMXactId'[TwoPhaseGetDummyBackendId(w)] =
                              OldestMemberMXactId[w]
             /\ LET dummy == TwoPhaseGetDummyBackendId(w)
                IN /\ OldestMemberMXactId'[dummy] # OldestMemberMXactId[dummy] =>
                          IF MultiXactIdIsValid(OldestMemberMXactId[dummy])
                          THEN /\ ret'.op = "twophase_postcommit" /\ ret'.arg = w
                               /\ OldestMemberMXactId'[dummy] = InvalidMultiXactId
                          ELSE /\ InTransfer(w)
                               /\ OldestMemberMXactId'[dummy] = OldestMemberMXactId[w]
                   /\ xact[w] = "prepared" /\ xact'[w] = "prepared" /\ ~InTransfer(w)' =>
                          OldestMemberMXactId'[dummy] = OldestMemberMXactId[dummy]]_vars

\* the transaction of backend 1 is prepared with its value in the prepared
\* transaction's slot and nothing in the backend's own, and backend 2 has
\* been given that value as the oldest id although nextMXact is past it
PrepareTransferWitness ==
    /\ xact[1] = "prepared"
    /\ pc[1] = "idle"
    /\ ~MultiXactIdIsValid(OldestMemberMXactId[1])
    /\ MultiXactIdIsValid(OldestMemberMXactId[TwoPhaseGetDummyBackendId(1)])
    /\ ret.op = "GetOldestMultiXactId" /\ ret.w = 2
    /\ ret.multi = OldestMemberMXactId[TwoPhaseGetDummyBackendId(1)]
    /\ MultiXactIdPrecedes(ret.multi, MultiXactState.nextMXact)
    /\ \A i \in OldestSlots \ {TwoPhaseGetDummyBackendId(1)} :
           ~MultiXactIdIsValid(OldestMemberMXactId[i])
    /\ \A w \in Backends : ~MultiXactIdIsValid(OldestVisibleMXactId[w])

-----------------------------------------------------------------------------
(* The order of the locks *)

\* MultiXactTruncationLock before MultiXactGenLock before the control locks
LockRank(lock) ==
    CASE lock = "MultiXactTruncationLock" -> 1
      [] lock = "MultiXactGenLock" -> 2
      [] lock = "MultiXactOffsetControlLock" -> 3
      [] lock = "MultiXactMemberControlLock" -> 3

\* backend w is inside a call
Busy(w) == pc[w] # "idle"

\* the next step of the call backend w is in
StepOf(w) == CreateSteps(w) \/ TruncSteps(w) \/ ReadSteps(w)

\* backend w is inside a call and waits for a lock
Blocked(w) == Busy(w) /\ ~ENABLED StepOf(w)

\* C37: a backend takes a lock only while every lock it holds comes before
\* it in the order MultiXactTruncationLock, MultiXactGenLock, control locks
\* (so the two control locks are never held together); a backend that is in
\* no call, or in a lookup between its locks, holds none; and in no state
\* are all the backends that are inside a call waiting for a lock.
NoDeadlock ==
    /\ [](\A w \in Backends :
             /\ pc[w] \in {"idle", "resolve_offsets", "resolve_members"} => held[w] = {}
             /\ Blocked(w) => \E v \in Backends : Busy(v) /\ ~Blocked(v))
    /\ [][\A w \in Backends : \A l \in held'[w] \ held[w] : \A h \in held[w] :
             LockRank(h.lock) < LockRank(l.lock)]_vars

\* backend 2, holding MultiXactTruncationLock, waits for MultiXactGenLock,
\* which backend 1 holds together with a control lock
NoDeadlockWitness ==
    /\ Blocked(2)
    /\ HeldBy(2) = {"MultiXactTruncationLock"}
    /\ "MultiXactGenLock" \in HeldBy(1)
    /\ HeldBy(1) \cap {"MultiXactOffsetControlLock", "MultiXactMemberControlLock"} # {}

-----------------------------------------------------------------------------
(* A page is zeroed before anything is written into it *)

\* the groups GetNewMultiXactId has handed out whose offset entry is on the
\* offsets page
MintedOnOffsetPage(pageno) ==
    {r \in Range(reserved) : MultiXactIdToOffsetPage(r.multi) = pageno}

\* the groups GetNewMultiXactId has handed out that have a member entry on
\* the members page
MintedOnMemberPage(pageno) ==
    {r \in Range(reserved) : pageno \in MemberPagesOf(r.offset, Len(r.members))}

\* the page has no zero-page record yet and, where it exists, holds nothing
FreshPage(ctl, zero, info, pageno) ==
    /\ ~ZeroedBefore(wal, Len(wal) + 1, info, pageno)
    /\ PageExists(ctl, pageno) => ctl.pages[pageno] = zero

\* the entries of the group are in the two logs as its creator wrote them
EntriesIntact(r) ==
    /\ OffsetEntry(OffsetCtl, r.multi) = r.offset
    /\ \A k \in 1..Len(r.members) :
           LET e == MemberEntry(MemberCtl, r.offset + k - 1)
           IN e.xid = r.members[k].xid /\ e.status = r.members[k].status

\* C38: in any run of creations each offsets page and each members page is
\* zeroed at most once (no two zero-page records of one kind name the same
\* page); the page a creation zeroes holds nothing and no entry of a group
\* that has been handed out is on it; an entry is written only into a page
\* that has been zeroed before (member page 0, which exists from the
\* bootstrap, apart); and the entries of every stored group stay as written.
ZeroFillKeepsEntries ==
    /\ [](/\ \A i, j \in 1..Len(wal) :
                (i < j /\ wal[i].info \in {"ZERO_OFF_PAGE", "ZERO_MEM_PAGE"}
                       /\ wal[i].info = wal[j].info) => wal[i].data # wal[j].data
          /\ \A r \in Range(reserved) : r.multi \in DOMAIN created => EntriesIntact(r))
    /\ [][\A w \in Backends :
              /\ pc[w] = "zero_offset" /\ pc'[w] # pc[w] =>
                     LET p == MultiXactIdToOffsetPage(loc[w].multi)
                     IN /\ FreshPage(OffsetCtl, ZeroOffsetPage, "ZERO_OFF_PAGE", p)
                        /\ MintedOnOffsetPage(p) = {}
                        /\ OffsetCtl'.pages[p] = ZeroOffsetPage
              /\ pc[w] = "zero_member" /\ pc'[w] # pc[w] =>
                     LET p == MXOffsetToMemberPage(loc[w].at)
                     IN /\ FreshPage(MemberCtl, ZeroMemberPage, "ZERO_MEM_PAGE", p)
                        /\ MintedOnMemberPage(p) = {}
                        /\ MemberCtl'.pages[p] = ZeroMemberPage
              /\ pc[w] = "offset_locked" /\ pc'[w] # pc[w] =>
                     ZeroedBefore(wal, Len(wal) + 1, "ZERO_OFF_PAGE",
                                  MultiXactIdToOffsetPage(loc[w].multi))
              /\ pc[w] = "member_locked" /\ pc'[w] # pc[w] =>
                     \A p \in MemberPagesOf(loc[w].offset, Len(loc[w].members)) :
                         \/ p \in DOMAIN BootState.mem.pages
                         \/ ZeroedBefore(wal, Len(wal) + 1, "ZERO_MEM_PAGE", p)]_vars

\* three groups are stored, the first with id 1 on offsets page 0, which its
\* creation zeroed, one whose members end at the end of a page and one
\* whose members run over two pages
ZeroFillWitness ==
    /\ \A w \in Backends : pc[w] = "idle"
    /\ 1 \in DOMAIN created
    /\ ZeroedBefore(wal, Len(wal) + 1, "ZERO_OFF_PAGE", 0)
    /\ \E r1, r2 \in Range(reserved) :
           /\ r1.multi \in DOMAIN created /\ r2.multi \in DOMAIN created
           /\ (r1.offset + Len(r1.members)) % MULTIXACT_MEMBERS_PER_PAGE = 0
           /\ Cardinality(MemberPagesOf(r2.offset, Len(r2.members))) = 2
           /\ EntriesIntact(r1) /\ EntriesIntact(r2)

-----------------------------------------------------------------------------
(* The cache and the logs *)

\* the offsets entry of the id points at these members in the members log
LogsHold(multi, members) ==
    /\ PageExists(OffsetCtl, MultiXactIdToOffsetPage(multi))
    /\ \A k \in 1..Len(members) :
           LET o == OffsetEntry(OffsetCtl, multi) + k - 1
           IN /\ PageExists(MemberCtl, MXOffsetToMemberPage(o))
              /\ MemberEntry(MemberCtl, o).xid = members[k].xid
              /\ MemberEntry(MemberCtl, o).status = members[k].status

\* entry i of the cache: sorted, the one entry of its id, and, unless the id
\* precedes oldestMultiXactId, the members of the group as they are stored
CacheEntryCoherent(cache, i) ==
    /\ IsSorted(cache[i].members)
    /\ \A j \in 1..Len(cache) : j # i => cache[j].multi # cache[i].multi
    /\ ~MultiXactIdPrecedes(cache[i].multi, MultiXactState.oldestMultiXactId) =>
           /\ cache[i].multi \in DOMAIN created
           /\ MemberSet(created[cache[i].multi]) = MemberSet(cache[i].members)
           /\ LogsHold(cache[i].multi, cache[i].members)

\* C39: in every reachable state every entry of a backend's cache has its
\* members sorted by (xid, status), no two entries of one cache have the
\* same id, and the members of an entry whose id is not below
\* oldestMultiXactId are the members stored for that id in the two logs.
CacheCoherent ==
    \A w \in Backends : \A i \in 1..Len(MXactCache[w]) : CacheEntryCoherent(MXactCache[w], i)

\* a backend's cache holds a stored group that is not below
\* oldestMultiXactId while the members page of its first member is gone
CachedGroupWithoutPage ==
    \E w \in Backends : \E i \in 1..Len(MXactCache[w]) :
        LET e == MXactCache[w][i]
        IN /\ ~MultiXactIdPrecedes(e.multi, MultiXactState.oldestMultiXactId)
           /\ e.multi \in DOMAIN created
           /\ MemberSet(created[e.multi]) = MemberSet(e.members)
           /\ OffsetEntry(OffsetCtl, e.multi) # 0
           /\ ~PageExists(MemberCtl, MXOffsetToMemberPage(OffsetEntry(OffsetCtl, e.multi)))

====
